---- MODULE Spec2Model ----
(***************************************************************************)
(* State-machine model of the SCORM translation pipeline                   *)
(* (parse -> extract -> translate -> rebuild) of traductor-scorm-manual:   *)
(* the command line tool src/traductor.py and the backend services under   *)
(* src/backend/app/services.                                               *)
(*                                                                         *)
(* Strings are modelled as sequences of one-character strings, paths as    *)
(* sequences of path components.  Every area of the pipeline has its own   *)
(* variables and its own specification; the variables of the other areas   *)
(* stay at their idle values.                                              *)
(***************************************************************************)
EXTENDS Integers, Sequences, FiniteSets, TLC

VARIABLES
    zipPc,            \* "idle" | "done": position of the archive-extraction call
    zipPath,          \* "none" | "backend" | "cli": which extraction path ran
    zipArchive,       \* the archive handed to the extraction path
    zipOutcome,       \* "none" | "invalid_scorm" | "unsafe" | "extracted"
    scratchWritten,   \* resolved paths of files written inside the scratch dir
    outsideWritten,   \* resolved paths of files written outside the scratch dir
    fillerWritten,    \* number of the archive's filler entries written
    htmlPc,           \* "idle" | "parsed" | "extracted" | "translated" | "rebuilt"
    htmlDoc,          \* the elements of the generic HTML file, in document order
    htmlSegments,     \* ExtractionResult.files[html_file]: the emitted segments
    htmlTranslations, \* the TranslationMap: segment id -> translated text
    htmlFailed,       \* ids of the segments on which the provider raised
    htmlContent,      \* raw content of the file in the working copy
    provPc,           \* "idle" | "done": position of the translate_segments call
    provKind,         \* "none" | "google" | "argos" | "claude" | "service" | "cli"
    provSegments,     \* number of segments handed to the provider (ids 1..n)
    provResult,       \* the returned map: segment id -> text
    provRaised,       \* TRUE iff the call raised instead of returning
    provFailed,       \* ids of the segments the backend could not translate
    packPc,           \* "idle" | "done": position of the rebuild of one language
    packPath,         \* "none" | "cli" | "backend": which rebuilder ran
    packArchive,      \* the entries of the original archive, in central-directory order
    packIdentity,     \* TRUE iff the provider maps every segment to its own text
    packOutput,       \* the entries of the output archive, in the order written
    idsPc,            \* "idle" | "once" | "twice": extractions of the package so far
    idsPath,          \* "none" | "cli" | "backend": which extractor ran
    idsPackage,       \* the extracted package: manifest and HTML files
    idsRun1,          \* the segments of the first extraction, in emission order
    idsRun2,          \* the segments of the second extraction, in emission order
    risePc,           \* "idle" | "extracted" | "translated" | "applied"
    riseDoc,          \* the string leaves of the course JSON (indices of RisePaths)
    riseSegments,     \* the segments extracted from the course JSON
    riseTranslations, \* the TranslationMap: segment id -> text
    riseData,         \* the course JSON of the working copy: leaf -> string
    encPc,            \* "idle" | "captured" | "written": position of the Rise write-back
    encData,          \* the course model the host page holds: leaf -> string
    encPayload,       \* the base64 payload captured from deserialize("...")
    encTranslations,  \* the TranslationMap handed to _apply_to_rise
    encWritten,       \* the payload spliced into the written file
    jobPc,            \* "idle" | "started" | "parsed" | "returned": position of one job
    jobKind,          \* "none" | "cli" | "backend": which pipeline runs the job
    jobLangs,         \* the target languages of the job, in order
    jobDone,          \* number of target languages rebuilt so far
    jobScratch,       \* TRUE iff the scratch directory of the package exists
    jobWork,          \* target languages whose working copy exists
    jobOutcome,       \* "none" | "success" | "no_segments" | "parse_error" | "rebuild_error"
    concPc,           \* job -> "new" | "extracted" | "prepared" | "done" | "failed"
    concJobs,         \* job -> its pipeline, archive stem, target language and output directory
    concDirs,         \* path of a scratch directory or working copy that exists -> job whose files it holds
    concTouched,      \* path -> jobs that have read, written or deleted it
    taskPc,           \* position of translate_scorm_task: "none", "queued", <<"update", i>>, "construct", "except", "raised", "dead"
    taskLangs,        \* len(target_languages) of the job
    taskRetries,      \* self.request.retries: executions already retried by Celery
    taskStatus,       \* status column of the job row
    taskPercent,      \* progress_percentage column of the job row
    cancelPc,         \* position of the CLI run: "none", "translate", "prepare", "apply", "zip_open", "zip_write", "rmwork", "ended"
    cancelDeferred,   \* TRUE when the interpreter turns SIGINT into a cancellation delivered at the next await
    cancelPending,    \* a deferred cancellation not yet delivered
    cancelLangs,      \* target languages not yet finished, the current one first
    cancelSeg,        \* segments of the current language already translated
    cancelWork,       \* languages whose work_<lang> directory exists
    cancelOutput,     \* language -> "partial" or "complete" for every output archive on disk
    cancelOutcome,    \* "none", "ok" or "interrupted"
    walkPc,           \* position of the Rise walk: "none", "loaded", "walked"
    walkData,         \* course JSON: leaf of WalkPaths -> string value
    walkSegments,     \* segments appended by _extract_from_json, in order
    retryPc,          \* position: "none", "calling", "waiting", "done" (of _translate_batch), "raised", "returned" (of translate_segments)
    retryKind,        \* "service" (TranslationService) or "claude" (ClaudeTranslateProvider)
    retryCalls,       \* result of every client.messages.create call made for the batch, in order
    retryOutcome,     \* what _translate_batch gave its caller: "none", "ok" or the name of the exception
    retryBatches,     \* batches of translate_segments still to do, the current one included
    retryResult,      \* all_translations: per finished batch "translated" or "original"
    applyPc,          \* position of the rebuild: "none", "applying", "zip", "done"
    applyKind,        \* "cli" (src/traductor.py) or "backend" (scorm_rebuilder.py)
    applyFiles,       \* the files of the extraction, in order: [type, fault]
    applyIndex,       \* number of files the apply loop has handled
    applyWork,        \* content of each file in the working copy: "original", "translated", "partial" or "absent"
    applyOutput,      \* content of each file in the output archive, <<>> while there is no archive
    applyOutcome,     \* "none", "ok" or "ScormRebuilderError"
    mfPc,             \* position: "none", "extracted", "translated", "applied"
    mfTitles,         \* raw payload of every <title> element of the manifest, in document order
    mfSegments,       \* segments of _extract_manifest: [id, text, title]
    mfTranslations,   \* TranslationMap: segment id -> translated text
    mfContent,        \* raw payload of every <title> element of the working copy
    mfRewrites,       \* per segment, the set of title elements its replacements rewrote
    splicePc,         \* position of _apply_to_rise: "none", "read", "written"
    spliceLinesep,    \* os.linesep of the platform: "LF" or "CRLF"
    spliceFile,       \* the page on disk before apply-back: [prefix, payload, suffix]
    spliceTranslations,\* TranslationMap of the language
    spliceWritten,    \* the page on disk after apply-back: [prefix, payload, suffix]
    isoPc,            \* position of the run: "none", "extracted", "seeded", "applied", "done"
    isoKind,          \* "cli" or "backend"
    isoFiles,         \* per file of the package, whether extraction found segments in it
    isoOriginal,      \* the scratch tree as extraction left it: file -> content
    isoScratch,       \* the scratch tree now: file -> content
    isoLangs,         \* target languages still to do, the current one first
    isoWork,          \* working copies on disk: language -> tree
    isoOutput,        \* output archives: language -> tree
    isoStale,         \* languages whose work_<lang> directory existed before the run
    manPc,            \* position of manifest discovery: "none", "listed", "found", "rejected"
    manKind,          \* "cli" or "backend"
    manNames,         \* namelist() of the archive, in central-directory order; a name is the sequence of its path components
    manSelected,      \* index of the entry taken as the manifest, 0 when none
    manRoot,          \* directory components of the package root
    treePc,           \* position of manifest parsing: "none", "loaded", "parsed"
    treeRoot,         \* the <manifest> element given to _parse_organizations
    treeOrgs,         \* the list of ScormOrganization it returns
    nestPc,           \* position of the extraction of a nested element: "none", "parsed", "extracted"
    nestKind,         \* "cli" or "backend"
    nestDoc,          \* <div>before<span>child</span>after</div>: the three text nodes
    nestSegments,     \* the HTML text segments extracted, in order of emission
    clsPc,            \* position of the classification run: "none", "extract", "rebuild", "done"
    clsFiles,         \* package.html_files: each file is the sequence of its parts
    clsNext,          \* index of the file the current loop handles next
    clsExtractedAs,   \* per file: "rise" or "html", the extractor that was run on it
    clsSegments,      \* per file: the kinds of the segments extracted from it
    clsRebuiltAs,     \* per file: "rise", "html", or "skipped" when the file has no entry in extraction.files
    clsApplied,       \* per file: how many of its segments the rebuild wrote back
    arcPc,            \* position of the run on one archive: "none", "extracted", "applied", "zipped"
    arcArchive,       \* infolist() of the input archive: entry names, each the sequence of its path components
    arcRoot,          \* package.root_dir, as path components
    arcWorking,       \* the files of the working copy, as paths relative to the package root
    arcApplied,       \* the files of the working copy to which a translation was written
    arcOutput,        \* per entry of the output archive: "translated" when it was written from the working copy, "original" when copied from the input
    batchPc,          \* position of the batch run: "none", "file", "language", "move", "done"
    batchFiles,       \* sorted(pendientes/*.zip): for each archive what its processing will meet
    batchLangs,       \* number of requested target languages
    batchFile,        \* index of the archive the loop is at
    batchLang,        \* index of the language the inner loop is at
    batchPending,     \* the archives in pendientes/
    batchProcessed,   \* the archives in procesados/
    batchTranslated   \* the outputs in traducidos/, as pairs <<archive, language>>

zipVars == <<zipPc, zipPath, zipArchive, zipOutcome, scratchWritten,
             outsideWritten, fillerWritten>>

htmlVars == <<htmlPc, htmlDoc, htmlSegments, htmlTranslations, htmlFailed,
              htmlContent>>

provVars == <<provPc, provKind, provSegments, provResult, provRaised, provFailed>>

packVars == <<packPc, packPath, packArchive, packIdentity, packOutput>>

idsVars == <<idsPc, idsPath, idsPackage, idsRun1, idsRun2>>

riseVars == <<risePc, riseDoc, riseSegments, riseTranslations, riseData>>

encVars == <<encPc, encData, encPayload, encTranslations, encWritten>>

jobVars == <<jobPc, jobKind, jobLangs, jobDone, jobScratch, jobWork, jobOutcome>>

concVars == <<concPc, concJobs, concDirs, concTouched>>

taskVars == <<taskPc, taskLangs, taskRetries, taskStatus, taskPercent>>

cancelVars == <<cancelPc, cancelDeferred, cancelPending, cancelLangs, cancelSeg, cancelWork, cancelOutput, cancelOutcome>>

walkVars == <<walkPc, walkData, walkSegments>>

retryVars == <<retryPc, retryKind, retryCalls, retryOutcome, retryBatches,
               retryResult>>

applyVars == <<applyPc, applyKind, applyFiles, applyIndex, applyWork, applyOutput, applyOutcome>>

mfVars == <<mfPc, mfTitles, mfSegments, mfTranslations, mfContent, mfRewrites>>

spliceVars == <<splicePc, spliceLinesep, spliceFile, spliceTranslations, spliceWritten>>

isoVars == <<isoPc, isoKind, isoFiles, isoOriginal, isoScratch, isoLangs, isoWork, isoOutput, isoStale>>

manVars == <<manPc, manKind, manNames, manSelected, manRoot>>

treeVars == <<treePc, treeRoot, treeOrgs>>

nestVars == <<nestPc, nestKind, nestDoc, nestSegments>>

clsVars == <<clsPc, clsFiles, clsNext, clsExtractedAs, clsSegments, clsRebuiltAs, clsApplied>>

arcVars == <<arcPc, arcArchive, arcRoot, arcWorking, arcApplied, arcOutput>>

batchVars == <<batchPc, batchFiles, batchLangs, batchFile, batchLang, batchPending, batchProcessed, batchTranslated>>

vars == <<zipVars, htmlVars, provVars, packVars, idsVars, riseVars, encVars, jobVars, concVars, taskVars, cancelVars, walkVars, retryVars, applyVars, mfVars, spliceVars, isoVars, manVars, treeVars, nestVars, clsVars, arcVars, batchVars>>

(***************************************************************************)
(* The state of each area before any of its operations has run, and the    *)
(* variables an area's operations leave alone.                             *)
(***************************************************************************)
NoArchive == [entries |-> <<>>, filler |-> 0, compressed |-> 0, wellformed |-> FALSE]

ZipIdle ==
    /\ zipPc = "idle"
    /\ zipPath = "none"
    /\ zipArchive = NoArchive
    /\ zipOutcome = "none"
    /\ scratchWritten = {}
    /\ outsideWritten = {}
    /\ fillerWritten = 0

HtmlIdle ==
    /\ htmlPc = "idle"
    /\ htmlDoc = <<>>
    /\ htmlSegments = <<>>
    /\ htmlTranslations = <<>>
    /\ htmlFailed = {}
    /\ htmlContent = <<>>

ProvIdle ==
    /\ provPc = "idle"
    /\ provKind = "none"
    /\ provSegments = 0
    /\ provResult = <<>>
    /\ provRaised = FALSE
    /\ provFailed = {}

PackIdle ==
    /\ packPc = "idle"
    /\ packPath = "none"
    /\ packArchive = <<>>
    /\ packIdentity = FALSE
    /\ packOutput = <<>>

NoPackage == [manifest |-> <<>>, files |-> <<>>]

IdsIdle ==
    /\ idsPc = "idle"
    /\ idsPath = "none"
    /\ idsPackage = NoPackage
    /\ idsRun1 = <<>>
    /\ idsRun2 = <<>>

RiseIdle ==
    /\ risePc = "idle"
    /\ riseDoc = {}
    /\ riseSegments = <<>>
    /\ riseTranslations = <<>>
    /\ riseData = <<>>

NoPayload == [bytes |-> <<>>, canonical |-> TRUE]

EncIdle ==
    /\ encPc = "idle"
    /\ encData = <<>>
    /\ encPayload = NoPayload
    /\ encTranslations = <<>>
    /\ encWritten = NoPayload

JobIdle ==
    /\ jobPc = "idle"
    /\ jobKind = "none"
    /\ jobLangs = <<>>
    /\ jobDone = 0
    /\ jobScratch = FALSE
    /\ jobWork = {}
    /\ jobOutcome = "none"

ConcIdle ==
    /\ concPc = <<>>
    /\ concJobs = <<>>
    /\ concDirs = <<>>
    /\ concTouched = <<>>

TaskIdle ==
    /\ taskPc = "none" /\ taskLangs = 0 /\ taskRetries = 0
    /\ taskStatus = "none" /\ taskPercent = 0

CancelIdle ==
    /\ cancelPc = "none" /\ cancelDeferred = FALSE /\ cancelPending = FALSE
    /\ cancelLangs = <<>> /\ cancelSeg = 0 /\ cancelWork = {}
    /\ cancelOutput = <<>> /\ cancelOutcome = "none"

WalkIdle == walkPc = "none" /\ walkData = <<>> /\ walkSegments = <<>>

RetryIdle ==
    /\ retryPc = "none" /\ retryKind = "none"
    /\ retryCalls = <<>> /\ retryOutcome = "none"
    /\ retryBatches = 0 /\ retryResult = <<>>

ApplyIdle ==
    /\ applyPc = "none" /\ applyKind = "none" /\ applyFiles = <<>>
    /\ applyIndex = 0 /\ applyWork = <<>> /\ applyOutput = <<>>
    /\ applyOutcome = "none"

MfIdle ==
    /\ mfPc = "none" /\ mfTitles = <<>> /\ mfSegments = <<>>
    /\ mfTranslations = <<>> /\ mfContent = <<>> /\ mfRewrites = <<>>

SpliceIdle ==
    /\ splicePc = "none" /\ spliceLinesep = "none" /\ spliceFile = <<>>
    /\ spliceTranslations = <<>> /\ spliceWritten = <<>>

IsoIdle ==
    /\ isoPc = "none" /\ isoKind = "none" /\ isoFiles = <<>>
    /\ isoOriginal = <<>> /\ isoScratch = <<>> /\ isoLangs = <<>>
    /\ isoWork = <<>> /\ isoOutput = <<>> /\ isoStale = {}

ManIdle ==
    /\ manPc = "none" /\ manKind = "none" /\ manNames = <<>>
    /\ manSelected = 0 /\ manRoot = <<>>

TreeIdle ==
    /\ treePc = "none"
    /\ treeRoot = [tag |-> "none", ns |-> FALSE, val |-> <<>>, kids |-> <<>>]
    /\ treeOrgs = <<>>

NestIdle ==
    /\ nestPc = "none" /\ nestKind = "none"
    /\ nestDoc = [before |-> <<>>, child |-> <<>>, after |-> <<>>]
    /\ nestSegments = <<>>

ClsIdle ==
    /\ clsPc = "none" /\ clsFiles = <<>> /\ clsNext = 0
    /\ clsExtractedAs = <<>> /\ clsSegments = <<>>
    /\ clsRebuiltAs = <<>> /\ clsApplied = <<>>

ArcIdle ==
    /\ arcPc = "none" /\ arcArchive = <<>> /\ arcRoot = <<>>
    /\ arcWorking = {} /\ arcApplied = {} /\ arcOutput = <<>>

BatchIdle ==
    /\ batchPc = "none" /\ batchFiles = <<>> /\ batchLangs = 0
    /\ batchFile = 0 /\ batchLang = 0
    /\ batchPending = {} /\ batchProcessed = {} /\ batchTranslated = {}

nonZipVars == <<htmlVars, provVars, packVars, idsVars, riseVars, encVars, jobVars, concVars, taskVars, cancelVars, walkVars, retryVars, applyVars, mfVars, spliceVars, isoVars, manVars, treeVars, nestVars, clsVars, arcVars, batchVars>>
nonHtmlVars == <<zipVars, provVars, packVars, idsVars, riseVars, encVars, jobVars, concVars, taskVars, cancelVars, walkVars, retryVars, applyVars, mfVars, spliceVars, isoVars, manVars, treeVars, nestVars, clsVars, arcVars, batchVars>>
nonProvVars == <<zipVars, htmlVars, packVars, idsVars, riseVars, encVars, jobVars, concVars, taskVars, cancelVars, walkVars, retryVars, applyVars, mfVars, spliceVars, isoVars, manVars, treeVars, nestVars, clsVars, arcVars, batchVars>>
nonPackVars == <<zipVars, htmlVars, provVars, idsVars, riseVars, encVars, jobVars, concVars, taskVars, cancelVars, walkVars, retryVars, applyVars, mfVars, spliceVars, isoVars, manVars, treeVars, nestVars, clsVars, arcVars, batchVars>>
nonIdsVars == <<zipVars, htmlVars, provVars, packVars, riseVars, encVars, jobVars, concVars, taskVars, cancelVars, walkVars, retryVars, applyVars, mfVars, spliceVars, isoVars, manVars, treeVars, nestVars, clsVars, arcVars, batchVars>>
nonRiseVars == <<zipVars, htmlVars, provVars, packVars, idsVars, encVars, jobVars, concVars, taskVars, cancelVars, walkVars, retryVars, applyVars, mfVars, spliceVars, isoVars, manVars, treeVars, nestVars, clsVars, arcVars, batchVars>>
nonEncVars == <<zipVars, htmlVars, provVars, packVars, idsVars, riseVars, jobVars, concVars, taskVars, cancelVars, walkVars, retryVars, applyVars, mfVars, spliceVars, isoVars, manVars, treeVars, nestVars, clsVars, arcVars, batchVars>>
nonJobVars == <<zipVars, htmlVars, provVars, packVars, idsVars, riseVars, encVars, concVars, taskVars, cancelVars, walkVars, retryVars, applyVars, mfVars, spliceVars, isoVars, manVars, treeVars, nestVars, clsVars, arcVars, batchVars>>
nonConcVars == <<zipVars, htmlVars, provVars, packVars, idsVars, riseVars, encVars, jobVars, taskVars, cancelVars, walkVars, retryVars, applyVars, mfVars, spliceVars, isoVars, manVars, treeVars, nestVars, clsVars, arcVars, batchVars>>
nonTaskVars == <<zipVars, htmlVars, provVars, packVars, idsVars, riseVars, encVars, jobVars, concVars, cancelVars, walkVars, retryVars, applyVars, mfVars, spliceVars, isoVars, manVars, treeVars, nestVars, clsVars, arcVars, batchVars>>
nonCancelVars == <<zipVars, htmlVars, provVars, packVars, idsVars, riseVars, encVars, jobVars, concVars, taskVars, walkVars, retryVars, applyVars, mfVars, spliceVars, isoVars, manVars, treeVars, nestVars, clsVars, arcVars, batchVars>>
nonWalkVars == <<zipVars, htmlVars, provVars, packVars, idsVars, riseVars, encVars, jobVars, concVars, taskVars, cancelVars, retryVars, applyVars, mfVars, spliceVars, isoVars, manVars, treeVars, nestVars, clsVars, arcVars, batchVars>>
nonRetryVars == <<zipVars, htmlVars, provVars, packVars, idsVars, riseVars, encVars, jobVars, concVars, taskVars, cancelVars, walkVars, applyVars, mfVars, spliceVars, isoVars, manVars, treeVars, nestVars, clsVars, arcVars, batchVars>>
nonApplyVars == <<zipVars, htmlVars, provVars, packVars, idsVars, riseVars, encVars, jobVars, concVars, taskVars, cancelVars, walkVars, retryVars, mfVars, spliceVars, isoVars, manVars, treeVars, nestVars, clsVars, arcVars, batchVars>>
nonMfVars == <<zipVars, htmlVars, provVars, packVars, idsVars, riseVars, encVars, jobVars, concVars, taskVars, cancelVars, walkVars, retryVars, applyVars, spliceVars, isoVars, manVars, treeVars, nestVars, clsVars, arcVars, batchVars>>
nonSpliceVars == <<zipVars, htmlVars, provVars, packVars, idsVars, riseVars, encVars, jobVars, concVars, taskVars, cancelVars, walkVars, retryVars, applyVars, mfVars, isoVars, manVars, treeVars, nestVars, clsVars, arcVars, batchVars>>
nonIsoVars == <<zipVars, htmlVars, provVars, packVars, idsVars, riseVars, encVars, jobVars, concVars, taskVars, cancelVars, walkVars, retryVars, applyVars, mfVars, spliceVars, manVars, treeVars, nestVars, clsVars, arcVars, batchVars>>
nonManVars == <<zipVars, htmlVars, provVars, packVars, idsVars, riseVars, encVars, jobVars, concVars, taskVars, cancelVars, walkVars, retryVars, applyVars, mfVars, spliceVars, isoVars, treeVars, nestVars, clsVars, arcVars, batchVars>>
nonTreeVars == <<zipVars, htmlVars, provVars, packVars, idsVars, riseVars, encVars, jobVars, concVars, taskVars, cancelVars, walkVars, retryVars, applyVars, mfVars, spliceVars, isoVars, manVars, nestVars, clsVars, arcVars, batchVars>>
nonNestVars == <<zipVars, htmlVars, provVars, packVars, idsVars, riseVars, encVars, jobVars, concVars, taskVars, cancelVars, walkVars, retryVars, applyVars, mfVars, spliceVars, isoVars, manVars, treeVars, clsVars, arcVars, batchVars>>
nonClsVars == <<zipVars, htmlVars, provVars, packVars, idsVars, riseVars, encVars, jobVars, concVars, taskVars, cancelVars, walkVars, retryVars, applyVars, mfVars, spliceVars, isoVars, manVars, treeVars, nestVars, arcVars, batchVars>>
nonArcVars == <<zipVars, htmlVars, provVars, packVars, idsVars, riseVars, encVars, jobVars, concVars, taskVars, cancelVars, walkVars, retryVars, applyVars, mfVars, spliceVars, isoVars, manVars, treeVars, nestVars, clsVars, batchVars>>
nonBatchVars == <<zipVars, htmlVars, provVars, packVars, idsVars, riseVars, encVars, jobVars, concVars, taskVars, cancelVars, walkVars, retryVars, applyVars, mfVars, spliceVars, isoVars, manVars, treeVars, nestVars, clsVars, arcVars>>

NonZipIdle == HtmlIdle /\ ProvIdle /\ PackIdle /\ IdsIdle /\ RiseIdle /\ EncIdle /\ JobIdle /\ ConcIdle /\ TaskIdle /\ CancelIdle /\ WalkIdle /\ RetryIdle /\ ApplyIdle /\ MfIdle /\ SpliceIdle /\ IsoIdle /\ ManIdle /\ TreeIdle /\ NestIdle /\ ClsIdle /\ ArcIdle /\ BatchIdle
NonHtmlIdle == ZipIdle /\ ProvIdle /\ PackIdle /\ IdsIdle /\ RiseIdle /\ EncIdle /\ JobIdle /\ ConcIdle /\ TaskIdle /\ CancelIdle /\ WalkIdle /\ RetryIdle /\ ApplyIdle /\ MfIdle /\ SpliceIdle /\ IsoIdle /\ ManIdle /\ TreeIdle /\ NestIdle /\ ClsIdle /\ ArcIdle /\ BatchIdle
NonProvIdle == ZipIdle /\ HtmlIdle /\ PackIdle /\ IdsIdle /\ RiseIdle /\ EncIdle /\ JobIdle /\ ConcIdle /\ TaskIdle /\ CancelIdle /\ WalkIdle /\ RetryIdle /\ ApplyIdle /\ MfIdle /\ SpliceIdle /\ IsoIdle /\ ManIdle /\ TreeIdle /\ NestIdle /\ ClsIdle /\ ArcIdle /\ BatchIdle
NonPackIdle == ZipIdle /\ HtmlIdle /\ ProvIdle /\ IdsIdle /\ RiseIdle /\ EncIdle /\ JobIdle /\ ConcIdle /\ TaskIdle /\ CancelIdle /\ WalkIdle /\ RetryIdle /\ ApplyIdle /\ MfIdle /\ SpliceIdle /\ IsoIdle /\ ManIdle /\ TreeIdle /\ NestIdle /\ ClsIdle /\ ArcIdle /\ BatchIdle
NonIdsIdle == ZipIdle /\ HtmlIdle /\ ProvIdle /\ PackIdle /\ RiseIdle /\ EncIdle /\ JobIdle /\ ConcIdle /\ TaskIdle /\ CancelIdle /\ WalkIdle /\ RetryIdle /\ ApplyIdle /\ MfIdle /\ SpliceIdle /\ IsoIdle /\ ManIdle /\ TreeIdle /\ NestIdle /\ ClsIdle /\ ArcIdle /\ BatchIdle
NonRiseIdle == ZipIdle /\ HtmlIdle /\ ProvIdle /\ PackIdle /\ IdsIdle /\ EncIdle /\ JobIdle /\ ConcIdle /\ TaskIdle /\ CancelIdle /\ WalkIdle /\ RetryIdle /\ ApplyIdle /\ MfIdle /\ SpliceIdle /\ IsoIdle /\ ManIdle /\ TreeIdle /\ NestIdle /\ ClsIdle /\ ArcIdle /\ BatchIdle
NonEncIdle == ZipIdle /\ HtmlIdle /\ ProvIdle /\ PackIdle /\ IdsIdle /\ RiseIdle /\ JobIdle /\ ConcIdle /\ TaskIdle /\ CancelIdle /\ WalkIdle /\ RetryIdle /\ ApplyIdle /\ MfIdle /\ SpliceIdle /\ IsoIdle /\ ManIdle /\ TreeIdle /\ NestIdle /\ ClsIdle /\ ArcIdle /\ BatchIdle
NonJobIdle == ZipIdle /\ HtmlIdle /\ ProvIdle /\ PackIdle /\ IdsIdle /\ RiseIdle /\ EncIdle /\ ConcIdle /\ TaskIdle /\ CancelIdle /\ WalkIdle /\ RetryIdle /\ ApplyIdle /\ MfIdle /\ SpliceIdle /\ IsoIdle /\ ManIdle /\ TreeIdle /\ NestIdle /\ ClsIdle /\ ArcIdle /\ BatchIdle
NonConcIdle == ZipIdle /\ HtmlIdle /\ ProvIdle /\ PackIdle /\ IdsIdle /\ RiseIdle /\ EncIdle /\ JobIdle /\ TaskIdle /\ CancelIdle /\ WalkIdle /\ RetryIdle /\ ApplyIdle /\ MfIdle /\ SpliceIdle /\ IsoIdle /\ ManIdle /\ TreeIdle /\ NestIdle /\ ClsIdle /\ ArcIdle /\ BatchIdle
NonTaskIdle == ZipIdle /\ HtmlIdle /\ ProvIdle /\ PackIdle /\ IdsIdle /\ RiseIdle /\ EncIdle /\ JobIdle /\ ConcIdle /\ CancelIdle /\ WalkIdle /\ RetryIdle /\ ApplyIdle /\ MfIdle /\ SpliceIdle /\ IsoIdle /\ ManIdle /\ TreeIdle /\ NestIdle /\ ClsIdle /\ ArcIdle /\ BatchIdle
NonCancelIdle == ZipIdle /\ HtmlIdle /\ ProvIdle /\ PackIdle /\ IdsIdle /\ RiseIdle /\ EncIdle /\ JobIdle /\ ConcIdle /\ TaskIdle /\ WalkIdle /\ RetryIdle /\ ApplyIdle /\ MfIdle /\ SpliceIdle /\ IsoIdle /\ ManIdle /\ TreeIdle /\ NestIdle /\ ClsIdle /\ ArcIdle /\ BatchIdle
NonWalkIdle == ZipIdle /\ HtmlIdle /\ ProvIdle /\ PackIdle /\ IdsIdle /\ RiseIdle /\ EncIdle /\ JobIdle /\ ConcIdle /\ TaskIdle /\ CancelIdle /\ RetryIdle /\ ApplyIdle /\ MfIdle /\ SpliceIdle /\ IsoIdle /\ ManIdle /\ TreeIdle /\ NestIdle /\ ClsIdle /\ ArcIdle /\ BatchIdle
NonRetryIdle == ZipIdle /\ HtmlIdle /\ ProvIdle /\ PackIdle /\ IdsIdle /\ RiseIdle /\ EncIdle /\ JobIdle /\ ConcIdle /\ TaskIdle /\ CancelIdle /\ WalkIdle /\ ApplyIdle /\ MfIdle /\ SpliceIdle /\ IsoIdle /\ ManIdle /\ TreeIdle /\ NestIdle /\ ClsIdle /\ ArcIdle /\ BatchIdle
NonApplyIdle == ZipIdle /\ HtmlIdle /\ ProvIdle /\ PackIdle /\ IdsIdle /\ RiseIdle /\ EncIdle /\ JobIdle /\ ConcIdle /\ TaskIdle /\ CancelIdle /\ WalkIdle /\ RetryIdle /\ MfIdle /\ SpliceIdle /\ IsoIdle /\ ManIdle /\ TreeIdle /\ NestIdle /\ ClsIdle /\ ArcIdle /\ BatchIdle
NonMfIdle == ZipIdle /\ HtmlIdle /\ ProvIdle /\ PackIdle /\ IdsIdle /\ RiseIdle /\ EncIdle /\ JobIdle /\ ConcIdle /\ TaskIdle /\ CancelIdle /\ WalkIdle /\ RetryIdle /\ ApplyIdle /\ SpliceIdle /\ IsoIdle /\ ManIdle /\ TreeIdle /\ NestIdle /\ ClsIdle /\ ArcIdle /\ BatchIdle
NonSpliceIdle == ZipIdle /\ HtmlIdle /\ ProvIdle /\ PackIdle /\ IdsIdle /\ RiseIdle /\ EncIdle /\ JobIdle /\ ConcIdle /\ TaskIdle /\ CancelIdle /\ WalkIdle /\ RetryIdle /\ ApplyIdle /\ MfIdle /\ IsoIdle /\ ManIdle /\ TreeIdle /\ NestIdle /\ ClsIdle /\ ArcIdle /\ BatchIdle
NonIsoIdle == ZipIdle /\ HtmlIdle /\ ProvIdle /\ PackIdle /\ IdsIdle /\ RiseIdle /\ EncIdle /\ JobIdle /\ ConcIdle /\ TaskIdle /\ CancelIdle /\ WalkIdle /\ RetryIdle /\ ApplyIdle /\ MfIdle /\ SpliceIdle /\ ManIdle /\ TreeIdle /\ NestIdle /\ ClsIdle /\ ArcIdle /\ BatchIdle
NonManIdle == ZipIdle /\ HtmlIdle /\ ProvIdle /\ PackIdle /\ IdsIdle /\ RiseIdle /\ EncIdle /\ JobIdle /\ ConcIdle /\ TaskIdle /\ CancelIdle /\ WalkIdle /\ RetryIdle /\ ApplyIdle /\ MfIdle /\ SpliceIdle /\ IsoIdle /\ TreeIdle /\ NestIdle /\ ClsIdle /\ ArcIdle /\ BatchIdle
NonTreeIdle == ZipIdle /\ HtmlIdle /\ ProvIdle /\ PackIdle /\ IdsIdle /\ RiseIdle /\ EncIdle /\ JobIdle /\ ConcIdle /\ TaskIdle /\ CancelIdle /\ WalkIdle /\ RetryIdle /\ ApplyIdle /\ MfIdle /\ SpliceIdle /\ IsoIdle /\ ManIdle /\ NestIdle /\ ClsIdle /\ ArcIdle /\ BatchIdle
NonNestIdle == ZipIdle /\ HtmlIdle /\ ProvIdle /\ PackIdle /\ IdsIdle /\ RiseIdle /\ EncIdle /\ JobIdle /\ ConcIdle /\ TaskIdle /\ CancelIdle /\ WalkIdle /\ RetryIdle /\ ApplyIdle /\ MfIdle /\ SpliceIdle /\ IsoIdle /\ ManIdle /\ TreeIdle /\ ClsIdle /\ ArcIdle /\ BatchIdle
NonClsIdle == ZipIdle /\ HtmlIdle /\ ProvIdle /\ PackIdle /\ IdsIdle /\ RiseIdle /\ EncIdle /\ JobIdle /\ ConcIdle /\ TaskIdle /\ CancelIdle /\ WalkIdle /\ RetryIdle /\ ApplyIdle /\ MfIdle /\ SpliceIdle /\ IsoIdle /\ ManIdle /\ TreeIdle /\ NestIdle /\ ArcIdle /\ BatchIdle
NonArcIdle == ZipIdle /\ HtmlIdle /\ ProvIdle /\ PackIdle /\ IdsIdle /\ RiseIdle /\ EncIdle /\ JobIdle /\ ConcIdle /\ TaskIdle /\ CancelIdle /\ WalkIdle /\ RetryIdle /\ ApplyIdle /\ MfIdle /\ SpliceIdle /\ IsoIdle /\ ManIdle /\ TreeIdle /\ NestIdle /\ ClsIdle /\ BatchIdle
NonBatchIdle == ZipIdle /\ HtmlIdle /\ ProvIdle /\ PackIdle /\ IdsIdle /\ RiseIdle /\ EncIdle /\ JobIdle /\ ConcIdle /\ TaskIdle /\ CancelIdle /\ WalkIdle /\ RetryIdle /\ ApplyIdle /\ MfIdle /\ SpliceIdle /\ IsoIdle /\ ManIdle /\ TreeIdle /\ NestIdle /\ ClsIdle /\ ArcIdle

(***************************************************************************)
(* Generic helpers on sequences.                                           *)
(***************************************************************************)
Range(s) == {s[i] : i \in 1..Len(s)}

RECURSIVE SumSeq(_)
SumSeq(s) == IF s = <<>> THEN 0 ELSE Head(s) + SumSeq(Tail(s))

\* all sequences over S of length lo..hi
SeqsOf(S, lo, hi) == UNION {[1..n -> S] : n \in lo..hi}

(***************************************************************************)
(* 4.A  Safe archive I/O                                                   *)
(***************************************************************************)
MaxEntries == 2

\* sizes are counted in KiB (TLC integers are 32 bits wide): 1 GiB = 1048576 KiB
MAX_UNCOMPRESSED_SIZE == 1048576
MAX_FILES_IN_ZIP == 10000
MAX_COMPRESSION_RATIO == 100

\* entry names of the modelled archives, as sequences of path components
EntryNames ==
    { <<"imsmanifest.xml">>,
      <<"index.html">>,
      <<"..", "evil.sh">>,
      <<"a", "..", "ok.txt">>,
      <<"__MACOSX", "._index.html">> }

\* uncompressed sizes of an entry, and sizes of the archive file on disk
EntrySizes == {100, 200, MAX_UNCOMPRESSED_SIZE - 100}
ArchiveSizes == {1, 2, 10486}

Entries == [name : EntryNames, symlink : BOOLEAN, file_size : EntrySizes]

\* number of further plain, empty, safely named entries "f<i>" the archive holds
Fillers(n) == {0, MAX_FILES_IN_ZIP - n, MAX_FILES_IN_ZIP - n + 1}

Archives ==
    UNION { { [entries |-> es, filler |-> f, compressed |-> c, wellformed |-> w] :
                f \in Fillers(Len(es)), c \in ArchiveSizes, w \in BOOLEAN } :
            es \in SeqsOf(Entries, 1, MaxEntries) }

\* Path.resolve() of extract_path / member, relative to extract_path:
\* up > 0 means the member escapes the scratch root by that many levels.
RECURSIVE ResolveFrom(_, _, _)
ResolveFrom(name, up, path) ==
    IF name = <<>> THEN [up |-> up, path |-> path]
    ELSE IF Head(name) = ".."
         THEN IF path = <<>>
              THEN ResolveFrom(Tail(name), up + 1, path)
              ELSE ResolveFrom(Tail(name), up, SubSeq(path, 1, Len(path) - 1))
         ELSE ResolveFrom(Tail(name), up, Append(path, Head(name)))

Resolve(name) == ResolveFrom(name, 0, <<>>)

Escapes(name) == Resolve(name).up > 0

file_count(a) == Len(a.entries) + a.filler

total_uncompressed(a) == SumSeq([i \in 1..Len(a.entries) |-> a.entries[i].file_size])

\* ScormParser.validate_scorm_zip: the manifest is an entry at the archive root
\* and parses as XML
validate_scorm_zip(a) ==
    /\ \E i \in 1..Len(a.entries) : a.entries[i].name = <<"imsmanifest.xml">>
    /\ a.wellformed

\* ScormParser._validate_zip_safety: TRUE iff no ScormParserError is raised
_validate_zip_safety(a) ==
    /\ ~(file_count(a) > MAX_FILES_IN_ZIP)
    /\ ~(total_uncompressed(a) > MAX_UNCOMPRESSED_SIZE)
    /\ (a.compressed > 0 =>
            ~(total_uncompressed(a) > MAX_COMPRESSION_RATIO * a.compressed))

\* ScormParser._safe_extract: TRUE iff every member passes the checks that
\* precede extractall
_safe_extract_ok(a) ==
    \A i \in 1..Len(a.entries) :
        /\ ~Escapes(a.entries[i].name)
        /\ ~a.entries[i].symlink

\* zipfile.extractall: every member lands inside the target directory
ExtractAll(a) == {Resolve(a.entries[i].name).path : i \in 1..Len(a.entries)}

\* backend ScormParser.parse_scorm_package
BackendParseOf(a) ==
    /\ zipPc' = "done"
    /\ zipPath' = "backend"
    /\ zipArchive' = a
    /\ outsideWritten' = {}
    /\ IF ~validate_scorm_zip(a)
       THEN /\ zipOutcome' = "invalid_scorm"
            /\ scratchWritten' = {}
            /\ fillerWritten' = 0
       ELSE IF ~_validate_zip_safety(a) \/ ~_safe_extract_ok(a)
       THEN /\ zipOutcome' = "unsafe"
            /\ scratchWritten' = {}
            /\ fillerWritten' = 0
       ELSE /\ zipOutcome' = "extracted"
            /\ scratchWritten' = ExtractAll(a)
            /\ fillerWritten' = a.filler

BackendParse ==
    /\ zipPc = "idle"
    /\ \E a \in Archives : BackendParseOf(a)

\* CLI ScormParser._find_manifest
_find_manifest(a) ==
    \E i \in 1..Len(a.entries) :
        /\ a.entries[i].name[Len(a.entries[i].name)] = "imsmanifest.xml"
        /\ "__MACOSX" \notin Range(a.entries[i].name)

\* members the CLI loop of _extract_zip writes
CliMembers(a) ==
    {i \in 1..Len(a.entries) : a.entries[i].name[1] # "__MACOSX"}

\* CLI ScormParser._extract_zip
CliParseOf(a) ==
    /\ zipPc' = "done"
    /\ zipPath' = "cli"
    /\ zipArchive' = a
    /\ IF ~_find_manifest(a)
       THEN /\ zipOutcome' = "invalid_scorm"
            /\ scratchWritten' = {}
            /\ outsideWritten' = {}
            /\ fillerWritten' = 0
       ELSE /\ zipOutcome' = "extracted"
            /\ scratchWritten' =
                 {Resolve(a.entries[i].name).path :
                     i \in {j \in CliMembers(a) : ~Escapes(a.entries[j].name)}}
            /\ outsideWritten' =
                 {Resolve(a.entries[i].name).path :
                     i \in {j \in CliMembers(a) : Escapes(a.entries[j].name)}}
            /\ fillerWritten' = a.filler

CliParse ==
    /\ zipPc = "idle"
    /\ \E a \in Archives : CliParseOf(a)

ZipInit == ZipIdle /\ NonZipIdle

ZipNext ==
    \/ BackendParse /\ UNCHANGED nonZipVars
    \/ CliParse /\ UNCHANGED nonZipVars

SpecZip == ZipInit /\ [][ZipNext]_vars

\* the five conditions of 4.A under which an archive is unsafe
UnsafeArchive(a) ==
    \/ file_count(a) > 10000
    \/ total_uncompressed(a) > 1048576
    \/ total_uncompressed(a) > 100 * a.compressed
    \/ \E i \in 1..Len(a.entries) : Escapes(a.entries[i].name)
    \/ \E i \in 1..Len(a.entries) : a.entries[i].symlink

NothingWritten == scratchWritten = {} /\ outsideWritten = {} /\ fillerWritten = 0

\* C1: every extraction path rejects an unsafe archive (too many entries, too
\* large, ratio above 100:1, zip-slip name, symlink) with nothing written
\* inside or outside the scratch directory.
C1_UnsafeRejected ==
    (zipPc = "done" /\ UnsafeArchive(zipArchive)) =>
        (zipOutcome # "extracted" /\ NothingWritten)

(***************************************************************************)
(* 4.C.2 / 4.E  Generic HTML: extraction, translation and apply-back of    *)
(* the command line tool, on one file of the package.                      *)
(*                                                                         *)
(* A file is a sequence of elements <tag>text</tag>; its raw content is    *)
(* the sequence of its characters, each tag delimiter being one token.     *)
(***************************************************************************)
MaxElems == 2
MaxTextLen == 3

Alphabet == {"a", "b"}

TEXT_TAGS == {"p"}
SKIP_TAGS == {"script"}
HtmlTags == TEXT_TAGS \cup SKIP_TAGS \cup {"em"}

\* shortest element text that is emitted as a segment
MinHtmlText == 3

HtmlTexts == SeqsOf(Alphabet, MinHtmlText - 1, MaxTextLen)

Elements == [tag : HtmlTags, text : HtmlTexts]

HtmlDocs == SeqsOf(Elements, 1, MaxElems)

HtmlFile == "index.html"

OpenTag(tag) == "<" \o tag \o ">"
CloseTag(tag) == "</" \o tag \o ">"

\* the raw content of the file
RECURSIVE Raw(_)
Raw(doc) ==
    IF doc = <<>> THEN <<>>
    ELSE <<OpenTag(Head(doc).tag)>> \o Head(doc).text \o <<CloseTag(Head(doc).tag)>>
         \o Raw(Tail(doc))

\* soup.find_all(TEXT_TAGS) after the SKIP_TAGS subtrees are decomposed:
\* the positions, in document order, of the elements that are scanned
RECURSIVE TextTagPositions(_, _)
TextTagPositions(doc, k) ==
    IF k > Len(doc) THEN <<>>
    ELSE IF doc[k].tag \in TEXT_TAGS /\ doc[k].tag \notin SKIP_TAGS
         THEN <<k>> \o TextTagPositions(doc, k + 1)
         ELSE TextTagPositions(doc, k + 1)

HtmlSegId(rel_path, tag_name, index) == <<"html", rel_path, tag_name, index>>

\* ContentExtractor._extract_element_and_attrs on the index-th scanned element
\* (index is zero-based, as enumerate gives it); elem is its position in the file
_extract_element_and_attrs(doc, elem, index, rel_path) ==
    IF Len(doc[elem].text) >= MinHtmlText
    THEN << [id |-> HtmlSegId(rel_path, doc[elem].tag, index),
             text |-> doc[elem].text,
             elem |-> elem] >>
    ELSE <<>>

RECURSIVE ExtractFrom(_, _, _, _)
ExtractFrom(doc, positions, i, rel_path) ==
    IF i > Len(positions) THEN <<>>
    ELSE _extract_element_and_attrs(doc, positions[i], i - 1, rel_path)
         \o ExtractFrom(doc, positions, i + 1, rel_path)

\* ContentExtractor._extract_html
_extract_html(doc, rel_path) ==
    ExtractFrom(doc, TextTagPositions(doc, 1), 1, rel_path)

\* str.find: the 1-based position of the first occurrence of pat, 0 if none
Find(content, pat) ==
    LET hits == {i \in 1..(Len(content) - Len(pat) + 1) :
                    SubSeq(content, i, i + Len(pat) - 1) = pat}
    IN IF hits = {} THEN 0 ELSE CHOOSE i \in hits : \A j \in hits : i <= j

\* content[:idx] + new + content[idx + len(old):]
Splice(content, idx, old, new) ==
    SubSeq(content, 1, idx - 1) \o new \o SubSeq(content, idx + Len(old), Len(content))

\* the segment loop of ScormRebuilder._apply_to_html
RECURSIVE _apply_to_html(_, _, _)
_apply_to_html(content, segments, translations) ==
    IF segments = <<>> THEN content
    ELSE LET seg == Head(segments)
             idx == Find(content, seg.text)
         IN IF seg.id \in DOMAIN translations /\ idx # 0
            THEN _apply_to_html(Splice(content, idx, seg.text, translations[seg.id]),
                                Tail(segments), translations)
            ELSE _apply_to_html(content, Tail(segments), translations)

\* what the provider does with one segment: it returns a text, returns
\* nothing, or raises
ProviderTexts == SeqsOf(Alphabet, MinHtmlText, MaxTextLen)
ProviderOutcomes ==
    {[kind |-> "ok", text |-> t] : t \in ProviderTexts}
        \cup {[kind |-> "empty", text |-> <<>>], [kind |-> "raise", text |-> <<>>]}

\* Translator.translate / _translate_segment_safe: a result that is not falsy
\* is stored, an exception stores the original text
TranslatorMap(segments, out) ==
    LET kept == {i \in 1..Len(segments) : out[i].kind # "empty"}
    IN [id \in {segments[i].id : i \in kept} |->
          LET i == CHOOSE j \in kept : segments[j].id = id
          IN IF out[i].kind = "raise" THEN segments[i].text ELSE out[i].text]

\* ScormParser.parse: the file is found in the scratch directory
HtmlParse ==
    /\ htmlPc = "idle"
    /\ \E doc \in HtmlDocs :
          /\ htmlDoc' = doc
          /\ htmlContent' = Raw(doc)
    /\ htmlPc' = "parsed"
    /\ UNCHANGED <<htmlSegments, htmlTranslations, htmlFailed>>

\* ContentExtractor.extract on the file
HtmlExtract ==
    /\ htmlPc = "parsed"
    /\ htmlSegments' = _extract_html(htmlDoc, HtmlFile)
    /\ htmlPc' = "extracted"
    /\ UNCHANGED <<htmlDoc, htmlTranslations, htmlFailed, htmlContent>>

\* Translator.translate
HtmlTranslate ==
    /\ htmlPc = "extracted"
    /\ htmlSegments # <<>>
    /\ \E out \in [1..Len(htmlSegments) -> ProviderOutcomes] :
          /\ htmlTranslations' = TranslatorMap(htmlSegments, out)
          /\ htmlFailed' = {htmlSegments[i].id :
                               i \in {j \in 1..Len(htmlSegments) : out[j].kind = "raise"}}
    /\ htmlPc' = "translated"
    /\ UNCHANGED <<htmlDoc, htmlSegments, htmlContent>>

\* ScormRebuilder._apply_to_html on the working copy of the file
HtmlRebuild ==
    /\ htmlPc = "translated"
    /\ htmlContent' = _apply_to_html(htmlContent, htmlSegments, htmlTranslations)
    /\ htmlPc' = "rebuilt"
    /\ UNCHANGED <<htmlDoc, htmlSegments, htmlTranslations, htmlFailed>>

HtmlInit == HtmlIdle /\ NonHtmlIdle

HtmlNext ==
    \/ HtmlParse /\ UNCHANGED nonHtmlVars
    \/ HtmlExtract /\ UNCHANGED nonHtmlVars
    \/ HtmlTranslate /\ UNCHANGED nonHtmlVars
    \/ HtmlRebuild /\ UNCHANGED nonHtmlVars

SpecHtml == HtmlInit /\ [][HtmlNext]_vars

\* the segment, if any, that was extracted from the element at position k
SegmentsOfElem(k) == {i \in 1..Len(htmlSegments) : htmlSegments[i].elem = k}

\* the text the claim expects at element k after apply-back: the translation
\* of the segment extracted from k, the original text when k has no segment
\* or its segment has no entry in the TranslationMap
ExpectedText(k) ==
    IF \E i \in SegmentsOfElem(k) : htmlSegments[i].id \in DOMAIN htmlTranslations
    THEN htmlTranslations[htmlSegments[CHOOSE i \in SegmentsOfElem(k) : TRUE].id]
    ELSE htmlDoc[k].text

ExpectedDoc == [k \in 1..Len(htmlDoc) |-> [tag |-> htmlDoc[k].tag, text |-> ExpectedText(k)]]

\* C2: applied in emission order, each segment's translation replaces exactly
\* the occurrence of its text that belongs to its own element, and no
\* occurrence is consumed twice: the rebuilt file is the original file with
\* every translated element's text replaced by its translation.
AllTranslated ==
    \A i \in 1..Len(htmlSegments) : htmlSegments[i].id \in DOMAIN htmlTranslations

C2_FirstOccurrenceSound ==
    (htmlPc = "rebuilt" /\ AllTranslated) => htmlContent = Raw(ExpectedDoc)

\* the text found in the rebuilt content at the location of element k, when
\* the tag delimiters of the file are all still in place
RECURSIVE DelimiterPositions(_, _)
DelimiterPositions(content, i) ==
    IF i > Len(content) THEN <<>>
    ELSE IF Len(content[i]) > 1
         THEN <<i>> \o DelimiterPositions(content, i + 1)
         ELSE DelimiterPositions(content, i + 1)

TextAt(content, k) ==
    LET d == DelimiterPositions(content, 1)
    IN SubSeq(content, d[2 * k - 1] + 1, d[2 * k] - 1)

\* C3: when the provider fails on a subset of the segments, the rebuilt file
\* holds the original text at every failed segment's own location and the
\* translation at every succeeded segment's location.
C3_PartialFailureInPlace ==
    (htmlPc = "rebuilt" /\ AllTranslated /\ htmlFailed # {}) =>
        \A i \in 1..Len(htmlSegments) :
            LET seg == htmlSegments[i]
            IN /\ seg.id \in htmlFailed =>
                    TextAt(htmlContent, seg.elem) = seg.text
               /\ (seg.id \in DOMAIN htmlTranslations /\ seg.id \notin htmlFailed) =>
                    TextAt(htmlContent, seg.elem) = htmlTranslations[seg.id]

\* C9: apply-back never changes the content of script, style, code, pre or
\* noscript elements.
C9_SkipRegionsUntouched ==
    htmlPc = "rebuilt" =>
        \A k \in 1..Len(htmlDoc) :
            htmlDoc[k].tag \in SKIP_TAGS => TextAt(htmlContent, k) = htmlDoc[k].text

(***************************************************************************)
(* 4.D  Translation providers: the map translate_segments returns.         *)
(*                                                                         *)
(* Segment i of the call has id i; its original text and the text a        *)
(* backend returns for it are kept apart as OriginalText(i) and            *)
(* TranslatedText(i).                                                      *)
(***************************************************************************)
MaxSegs == 3

\* MAX_SEGMENTS_PER_BATCH of the source (50), scaled down so that a call
\* with MaxSegs segments spans more than one batch
BatchSize == 2

OriginalText(i) == [kind |-> "original", of |-> i]
TranslatedText(i) == [kind |-> "translated", of |-> i]

\* _create_batches: the ids of batch b (batches are numbered from 0)
BatchIds(n, b) == {i \in 1..n : (i - 1) \div BatchSize = b}
BatchCount(n) == (n + BatchSize - 1) \div BatchSize

\* outcome of translate_text on one segment: a translation or an exception
TextOutcomes == {"ok", "raise"}

\* outcome of the CLI's _translate_segment: a translation, a falsy result
\* (None or an empty string), or an exception
CliOutcomes == {"ok", "empty", "raise"}

\* GoogleTranslateProvider.translate_segments with the outcome out[i] of
\* translate_text on segment i
GoogleMap(n, out) ==
    [i \in 1..n |-> IF out[i] = "raise" THEN OriginalText(i) ELSE TranslatedText(i)]

GoogleTranslate ==
    /\ provPc = "idle"
    /\ \E n \in 1..MaxSegs : \E out \in [1..n -> TextOutcomes] :
          /\ provSegments' = n
          /\ provResult' = GoogleMap(n, out)
          /\ provFailed' = {i \in 1..n : out[i] # "ok"}
    /\ provKind' = "google"
    /\ provRaised' = FALSE
    /\ provPc' = "done"

\* ArgosTranslateProvider.translate_segments: without a model for the
\* language pair every segment passes through unchanged
ArgosTranslate ==
    /\ provPc = "idle"
    /\ \E n \in 1..MaxSegs : \E installed \in BOOLEAN : \E out \in [1..n -> TextOutcomes] :
          /\ provSegments' = n
          /\ provResult' = IF installed THEN GoogleMap(n, out)
                           ELSE [i \in 1..n |-> OriginalText(i)]
          /\ provFailed' = IF installed THEN {i \in 1..n : out[i] # "ok"} ELSE 1..n
    /\ provKind' = "argos"
    /\ provRaised' = FALSE
    /\ provPc' = "done"

\* what the LLM call of one batch gives: an exception (API error, answer
\* that is not JSON), or a JSON answer that names some of the ids of the
\* batch, each with its translation
BatchAnswers(ids) ==
    {[raised |-> TRUE, items |-> {}]}
        \cup {[raised |-> FALSE, items |-> got] : got \in SUBSET ids}

\* _parse_response: segment_id -> translated_text for the items of the answer
_parse_response(ans) == [i \in ans.items |-> TranslatedText(i)]

Merge(f, g) == [x \in DOMAIN f \cup DOMAIN g |-> IF x \in DOMAIN g THEN g[x] ELSE f[x]]

\* ClaudeTranslateProvider.translate_segments, batches b .. last, on the
\* translations collected so far
RECURSIVE ClaudeBatches(_, _, _, _)
ClaudeBatches(n, b, answers, all_translations) ==
    IF b >= BatchCount(n) THEN all_translations
    ELSE ClaudeBatches(n, b + 1, answers,
            IF answers[b].raised
            THEN Merge(all_translations, [i \in BatchIds(n, b) |-> OriginalText(i)])
            ELSE Merge(all_translations, _parse_response(answers[b])))

\* ids the LLM did not translate: their batch raised, or the answer left
\* them out
LlmFailed(n, answers) ==
    {i \in 1..n :
        LET a == answers[(i - 1) \div BatchSize]
        IN a.raised \/ i \notin a.items}

AnswerSets(n) ==
    {answers \in [0..(BatchCount(n) - 1) -> BatchAnswers(1..n)] :
        \A b \in DOMAIN answers : answers[b].items \subseteq BatchIds(n, b)}

ClaudeTranslate ==
    /\ provPc = "idle"
    /\ \E n \in 1..MaxSegs : \E answers \in AnswerSets(n) :
          /\ provSegments' = n
          /\ provResult' = ClaudeBatches(n, 0, answers, <<>>)
          /\ provFailed' = LlmFailed(n, answers)
    /\ provKind' = "claude"
    /\ provRaised' = FALSE
    /\ provPc' = "done"

\* TranslationService.translate_segments: the first batch that raises ends
\* the call with TranslationServiceError
RECURSIVE ServiceBatches(_, _, _, _)
ServiceBatches(n, b, answers, all_translations) ==
    IF b >= BatchCount(n) THEN [raised |-> FALSE, map |-> all_translations]
    ELSE IF answers[b].raised THEN [raised |-> TRUE, map |-> <<>>]
    ELSE ServiceBatches(n, b + 1, answers,
            Merge(all_translations, _parse_response(answers[b])))

ServiceTranslate ==
    /\ provPc = "idle"
    /\ \E n \in 1..MaxSegs : \E answers \in AnswerSets(n) :
          LET r == ServiceBatches(n, 0, answers, <<>>)
          IN /\ provSegments' = n
             /\ provResult' = r.map
             /\ provRaised' = r.raised
             /\ provFailed' = LlmFailed(n, answers)
    /\ provKind' = "service"
    /\ provPc' = "done"

\* CLI Translator.translate: _translate_segment_safe stores a result that
\* is not falsy, and the original text when _translate_segment raises
CliMap(n, out) ==
    [i \in {j \in 1..n : out[j] # "empty"} |->
        IF out[i] = "raise" THEN OriginalText(i) ELSE TranslatedText(i)]

CliTranslate ==
    /\ provPc = "idle"
    /\ \E n \in 1..MaxSegs : \E out \in [1..n -> CliOutcomes] :
          /\ provSegments' = n
          /\ provResult' = CliMap(n, out)
          /\ provFailed' = {i \in 1..n : out[i] # "ok"}
    /\ provKind' = "cli"
    /\ provRaised' = FALSE
    /\ provPc' = "done"

ProvInit == ProvIdle /\ NonProvIdle

ProvNext ==
    \/ GoogleTranslate /\ UNCHANGED nonProvVars
    \/ ArgosTranslate /\ UNCHANGED nonProvVars
    \/ ClaudeTranslate /\ UNCHANGED nonProvVars
    \/ ServiceTranslate /\ UNCHANGED nonProvVars
    \/ CliTranslate /\ UNCHANGED nonProvVars

SpecProv == ProvInit /\ [][ProvNext]_vars

\* C4: for every provider the returned map has exactly one entry per input
\* segment id, a segment the backend could not translate maps to its
\* original text, and the call does not raise on a segment or batch failure.
C4_OneEntryPerSegment ==
    provPc = "done" =>
        /\ ~provRaised
        /\ DOMAIN provResult = 1..provSegments
        /\ \A i \in provFailed : provResult[i] = OriginalText(i)

(***************************************************************************)
(* 4.A / 4.E  Rebuild and repackaging of one target language.              *)
(*                                                                         *)
(* An archive entry has a name, its bytes (a text, the name of a file it   *)
(* refers to, and whether the bytes are the original ones, were written    *)
(* back unchanged in meaning, or hold translations) and its ZIP            *)
(* attributes.  carries says that extraction emitted a segment for it.     *)
(***************************************************************************)
MaxPackEntries == 3

NameManifest == "imsmanifest.xml"
NameIndex == "index.html"
NameAccentNFC == "cancio'n.html (NFC)"
NameAccentNFD == "cancio'n.html (NFD)"
NameAscii == "cancion.html"
NameDir == "media/"
NameMacosx == "__MACOSX/._index.html"

PackNames == {NameManifest, NameIndex, NameAccentNFC, NameAccentNFD, NameDir, NameMacosx}

\* unicodedata.normalize('NFC', name)
NFC(name) == IF name = NameAccentNFD THEN NameAccentNFC ELSE name

\* cancio'n.html as macOS wrote it in NFD and a CP437 reader decoded it:
\* o followed by U+2560 U+00FC
NameAccentCp437 == "cancio'n.html (NFD read as CP437)"

\* CLI ScormParser._fix_corrupted_unicode: the replacement table, then NFC
_fix_corrupted_unicode(name) ==
    IF name = NameAccentCp437 THEN NameAccentNFC ELSE NFC(name)

\* backend filename_normalizer.normalize_path
normalize_path(name) ==
    IF name \in {NameAccentNFC, NameAccentNFD} THEN NameAscii ELSE name

IsDirName(name) == name = NameDir
IsMacosx(name) == name = NameMacosx
\* files whose references _update_file_references rewrites (.html, .xml, ...)
HasMarkup(name) == name \in {NameManifest, NameIndex, NameAccentNFC, NameAccentNFD, NameAscii}

NoRef == "-"
PackData == [text : {"d1", "d2"}, ref : {NoRef, NameAccentNFC}, form : {"original"}]
EmptyData == [text |-> "", ref |-> NoRef, form |-> "original"]

ZipAttrs == {[compress_type |-> "ZIP_STORED", extra |-> "ux", date_time |-> "T0"],
             [compress_type |-> "ZIP_DEFLATED", extra |-> "", date_time |-> "T0"]}

\* attributes ZipFile.write gives a freshly archived file
DefaultAttrs == [compress_type |-> "ZIP_DEFLATED", extra |-> "", date_time |-> "NOW"]

PackEntries ==
    {[name |-> n, data |-> d, carries |-> c, attrs |-> a] :
        n \in PackNames, d \in PackData \cup {EmptyData}, c \in BOOLEAN, a \in ZipAttrs}

WellFormedEntry(e) ==
    /\ IsDirName(e.name) => (e.data = EmptyData /\ ~e.carries)
    /\ ~IsDirName(e.name) => e.data # EmptyData
    /\ ~HasMarkup(e.name) => ~e.carries
    /\ e.name # NameIndex => e.data.ref = NoRef

\* valid packages: distinct entry names, the manifest at the archive root
PackArchives ==
    {es \in SeqsOf({e \in PackEntries : WellFormedEntry(e)}, 1, MaxPackEntries) :
        /\ \A i, j \in 1..Len(es) : es[i].name = es[j].name => i = j
        /\ \E i \in 1..Len(es) : es[i].name = NameManifest}

\* all orders in which the members of a finite set can be listed
Perms(S) ==
    {f \in [1..Cardinality(S) -> S] : \A i, j \in 1..Cardinality(S) : f[i] = f[j] => i = j}

\* the bytes of a file after translations were applied to it
Applied(data, identity) ==
    [data EXCEPT !.form = IF identity THEN "rewritten" ELSE "translated"]

(* ---- command line tool ---- *)

\* ScormParser._extract_zip: the scratch tree, path -> index of the entry
\* whose bytes the path holds (a later member overwrites an earlier one)
CliScratch(es) ==
    LET members == {i \in 1..Len(es) : ~IsMacosx(es[i].name) /\ ~IsDirName(es[i].name)}
        paths == {_fix_corrupted_unicode(es[i].name) : i \in members}
    IN [q \in paths |->
          CHOOSE i \in members :
              /\ _fix_corrupted_unicode(es[i].name) = q
              /\ \A j \in members : _fix_corrupted_unicode(es[j].name) = q => j <= i]

\* ScormRebuilder._apply_translations_to_files on the working copy:
\* path -> bytes
CliWorking(es, identity) ==
    LET scratch == CliScratch(es)
    IN [q \in DOMAIN scratch |->
          IF es[scratch[q]].carries
          THEN Applied(es[scratch[q]].data, identity)
          ELSE es[scratch[q]].data]

\* ScormRebuilder._build_modified_files_map: normalized arcname -> bytes
_build_modified_files_map(working) ==
    [k \in {NFC(q) : q \in DOMAIN working} |->
        working[CHOOSE q \in DOMAIN working : NFC(q) = k]]

\* ScormRebuilder._create_zip / _write_modified_entry / _copy_original_entry
CliCreateZip(es, working) ==
    LET modified_files == _build_modified_files_map(working)
    IN [i \in 1..Len(es) |->
          IF NFC(es[i].name) \in DOMAIN modified_files
          THEN [es[i] EXCEPT !.data = modified_files[NFC(es[i].name)]]
          ELSE es[i]]

\* CLI ScormRebuilder.rebuild
CliRebuild ==
    /\ packPc = "idle"
    /\ \E es \in PackArchives : \E identity \in BOOLEAN :
          /\ packArchive' = es
          /\ packIdentity' = identity
          /\ packOutput' = CliCreateZip(es, CliWorking(es, identity))
    /\ packPath' = "cli"
    /\ packPc' = "done"

(* ---- backend ---- *)

\* zipfile.extractall and copytree: path -> bytes, every member included
BackendScratch(es) ==
    LET members == {i \in 1..Len(es) : ~IsDirName(es[i].name)}
    IN [q \in {es[i].name : i \in members} |->
          es[CHOOSE i \in members : es[i].name = q]]

\* normalize_files_in_directory: the rename map
RenameMap(scratch) ==
    [q \in {r \in DOMAIN scratch : normalize_path(r) # r} |-> normalize_path(q)]

\* the trees normalize_files_in_directory can leave: every file sits at its
\* normalized path; of the files moved onto one path the last one moved
\* survives, and the order of the moves is the order of the directory listing
NormalizedTrees(scratch) ==
    LET targets == {normalize_path(q) : q \in DOMAIN scratch}
    IN {t \in [targets -> DOMAIN scratch] :
           \A k \in targets :
               /\ normalize_path(t[k]) = k
               /\ (k \in DOMAIN scratch /\ normalize_path(k) = k
                      /\ ~\E r \in DOMAIN RenameMap(scratch) : normalize_path(r) = k)
                    => t[k] = k}

\* update_references_in_html / _xml on the bytes of one file
UpdateReferences(name, data, rename_map) ==
    IF HasMarkup(name) /\ data.ref \in DOMAIN rename_map
    THEN [data EXCEPT !.ref = rename_map[data.ref]]
    ELSE data

\* ScormRebuilder._apply_translations_to_file: the file is looked up at the
\* path extraction recorded; a file that was renamed is not found and skipped
BackendApply(path, origin, e, data, identity) ==
    IF e.carries /\ path = origin THEN Applied(data, identity) ELSE data

\* the working directory before it is zipped: path -> entry
BackendWorking(es, tree, identity) ==
    LET scratch == BackendScratch(es)
        rename_map == RenameMap(scratch)
    IN [k \in DOMAIN tree |->
          LET e == scratch[tree[k]]
          IN [name |-> k,
              data |-> BackendApply(k, tree[k], e,
                           IF rename_map = <<>> THEN e.data
                           ELSE UpdateReferences(k, e.data, rename_map),
                           identity),
              carries |-> e.carries,
              attrs |-> DefaultAttrs]]

\* backend ScormRebuilder.rebuild_scorm; _create_zip archives the files in
\* the order rglob lists them
BackendRebuild ==
    /\ packPc = "idle"
    /\ \E es \in PackArchives : \E identity \in BOOLEAN :
          \E tree \in NormalizedTrees(BackendScratch(es)) :
          \E order \in Perms(DOMAIN tree) :
              /\ packArchive' = es
              /\ packIdentity' = identity
              /\ packOutput' =
                   [i \in 1..Len(order) |-> BackendWorking(es, tree, identity)[order[i]]]
    /\ packPath' = "backend"
    /\ packPc' = "done"

PackInit == PackIdle /\ NonPackIdle

PackNext ==
    \/ CliRebuild /\ UNCHANGED nonPackVars
    \/ BackendRebuild /\ UNCHANGED nonPackVars

SpecPack == PackInit /\ [][PackNext]_vars

EntryNamesOf(es) == {es[i].name : i \in 1..Len(es)}

\* C5: with an identity provider the output archive has the same set of
\* entry names as the input, and every entry that carries no extracted
\* segment has the content of the input entry.
C5_RoundTripIdentity ==
    (packPc = "done" /\ packIdentity) =>
        /\ EntryNamesOf(packOutput) = EntryNamesOf(packArchive)
        /\ \A i \in 1..Len(packArchive) :
              ~packArchive[i].carries =>
                  \E j \in 1..Len(packOutput) :
                      /\ packOutput[j].name = packArchive[i].name
                      /\ packOutput[j].data = packArchive[i].data

\* C6: the output archive lists the entries in the order of the original
\* central directory, and every entry not modified by translation keeps its
\* bytes and its ZIP attributes.
C6_OrderAndAttributesKept ==
    packPc = "done" =>
        /\ Len(packOutput) = Len(packArchive)
        /\ \A i \in 1..Len(packArchive) :
              /\ i <= Len(packOutput) => packOutput[i].name = packArchive[i].name
              /\ (i <= Len(packOutput) /\ ~packArchive[i].carries) =>
                    /\ packOutput[i].data = packArchive[i].data
                    /\ packOutput[i].attrs = packArchive[i].attrs

(***************************************************************************)
(* 4.C  Segment ids.                                                       *)
(*                                                                         *)
(* A segment id is a string built with '_' between its parts; it is        *)
(* modelled by the sequence of its '_'-separated tokens, so two ids are    *)
(* the same string iff they are the same sequence.  A part that can hold   *)
(* '_' itself (a JSON key) is a sequence of tokens.                        *)
(***************************************************************************)
RECURSIVE Flatten(_)
Flatten(ss) == IF ss = <<>> THEN <<>> ELSE Head(ss) \o Flatten(Tail(ss))

(* ---- Articulate Rise course JSON ---- *)

\* the string leaves a course JSON can hold, in the order of the document;
\* a path is the sequence of its keys, a key the sequence of its words:
\*   title, labelSet.labels.x.y, labelSet.labels.x.id,
\*   labelSet.labels.x_y, labelSet.labels.x_id, slug
RisePaths ==
    << << <<"title">> >>,
       << <<"labelSet">>, <<"labels">>, <<"x">>, <<"y">> >>,
       << <<"labelSet">>, <<"labels">>, <<"x">>, <<"id">> >>,
       << <<"labelSet">>, <<"labels">>, <<"x", "y">> >>,
       << <<"labelSet">>, <<"labels">>, <<"x", "id">> >>,
       << <<"slug">> >> >>

RISE_FIELDS ==
    {"title", "heading", "paragraph", "description", "caption",
     "text", "label", "buttonText", "question", "answer", "feedback"}

\* ContentExtractor._is_skippable_key
_is_skippable_key(key) ==
    key \in {<<"id">>, <<"key">>, <<"src">>, <<"href">>, <<"color">>, <<"icon">>,
             <<"media">>, <<"settings">>, <<"background">>, <<"exportSettings">>}

\* str.lower() on the names of the model that hold a capital letter
lower(word) ==
    CASE word = "Title" -> "title"
      [] word = "buttonText" -> "buttontext"
      [] word = "labelSet" -> "labelset"
      [] word = "IMSMANIFEST.XML" -> "imsmanifest.xml"
      [] OTHER -> word

\* ContentExtractor._is_translatable_key
_is_translatable_key(key, path) ==
    \/ Len(key) = 1 /\ lower(key[1]) \in RISE_FIELDS
    \/ \E i \in 1..(Len(path) - 1) : path[i] = <<"labelSet">> /\ path[i + 1] = <<"labels">>

\* f"rise_{path.replace('.', '_')}"
RiseSegId(path) == <<"rise">> \o Flatten(path)

\* the original string stored at leaf k
RiseOriginal(k) == <<"text", ToString(k)>>

\* ContentExtractor._extract_from_json / _process_json_value on the course
\* JSON whose leaves are the paths of doc: recursion stops at a skippable key
RiseExtracted(doc) ==
    {k \in doc :
        /\ \A i \in 1..Len(RisePaths[k]) : ~_is_skippable_key(RisePaths[k][i])
        /\ _is_translatable_key(RisePaths[k][Len(RisePaths[k])], RisePaths[k])}

\* the sequence 1..n restricted to the members of S, in increasing order
RECURSIVE IndexSeq(_, _)
IndexSeq(S, n) ==
    IF n = 0 THEN <<>>
    ELSE IF n \in S THEN Append(IndexSeq(S, n - 1), n) ELSE IndexSeq(S, n - 1)

\* ContentExtractor._extract_rise
_extract_rise(doc) ==
    LET ks == IndexSeq(RiseExtracted(doc), Len(RisePaths))
    IN [i \in 1..Len(ks) |->
          [id |-> RiseSegId(RisePaths[ks[i]]), text |-> RiseOriginal(ks[i])]]

(* ---- packages ---- *)

MaxItems == 2
MaxFileElems == 2

NoIdentifier == <<>>
OrgTitleIndex == 3
\* identifier attributes of the manifest: missing, or the text "7"
Identifiers == {NoIdentifier, <<ToString(2 * MaxItems + OrgTitleIndex)>>}

\* <manifest><organizations><organization><title/>
\*    <item><title/></item> ... </organization></organizations></manifest>
Manifests == [org : Identifiers, items : SeqsOf(Identifiers, 0, MaxItems)]

\* position of the title of item j in tree.iter()
ItemTitleIndex(j) == 2 * j + OrgTitleIndex

IdsTags == {"p", "h1"}
IdsAttrs == {"alt", "title"}
IdsElements == [tag : IdsTags, attrs : {{}, IdsAttrs}]

\* the paths of RisePaths the course JSON of a package file may hold
IdsRiseLeaves == {1, 2, 4}

FileNames == <<"a.html", "b.html">>
FileContents ==
    {[kind |-> "absent"]}
    \cup {[kind |-> "html", elems |-> es] : es \in SeqsOf(IdsElements, 0, MaxFileElems)}
    \cup {[kind |-> "rise", doc |-> d] : d \in SUBSET IdsRiseLeaves}

Packages == [manifest : Manifests, files : [1..Len(FileNames) -> FileContents]]

\* the iteration orders of the sets of str of one interpreter process, and
\* the order in which rglob lists the files of one scratch tree
HashSeeds == [tags : Perms(IdsTags), attrs : Perms(IdsAttrs), listing : Perms(1..Len(FileNames))]

ElemText == <<"abc">>
AttrText(attr) == <<attr, "text">>

(* ---- command line tool ---- *)

\* CLI ContentExtractor._process_manifest_element
CliManifestId(parent_tag, identifier, index) ==
    <<parent_tag>>
    \o (IF identifier = NoIdentifier THEN <<ToString(index)>> ELSE identifier)
    \o <<"title">>

\* CLI ContentExtractor._extract_manifest
CliExtractManifest(m) ==
    <<[id |-> CliManifestId("organization", m.org, OrgTitleIndex), text |-> <<"org">>]>>
    \o [j \in 1..Len(m.items) |->
          [id |-> CliManifestId("item", m.items[j], ItemTitleIndex(j)),
           text |-> <<"item", ToString(j)>>]]

\* CLI ContentExtractor._extract_element_and_attrs: the text of the element,
\* then its attributes in the iteration order of TRANSLATABLE_ATTRS
CliElementSegs(rel_path, elem, index, seed) ==
    <<[id |-> <<"html", rel_path, elem.tag, ToString(index)>>, text |-> ElemText]>>
    \o [k \in 1..Len(SelectSeq(seed.attrs, LAMBDA a : a \in elem.attrs)) |->
          LET attr == SelectSeq(seed.attrs, LAMBDA a : a \in elem.attrs)[k]
          IN [id |-> <<"html", rel_path, elem.tag, ToString(index), attr>>,
              text |-> AttrText(attr)]]

\* CLI ContentExtractor._extract_html
CliExtractHtml(rel_path, elems, seed) ==
    Flatten([i \in 1..Len(elems) |-> CliElementSegs(rel_path, elems[i], i - 1, seed)])

\* CLI ContentExtractor.extract over sorted(html_files)
CliExtractAll(pkg, seed) ==
    CliExtractManifest(pkg.manifest)
    \o Flatten([f \in 1..Len(FileNames) |->
          IF pkg.files[f].kind = "rise" THEN _extract_rise(pkg.files[f].doc)
          ELSE IF pkg.files[f].kind = "html"
               THEN CliExtractHtml(FileNames[f], pkg.files[f].elems, seed)
               ELSE <<>>])

(* ---- backend ---- *)

\* backend ScormParser._parse_organizations / _parse_item: a missing
\* identifier is read as the empty string
BackendIdentifier(identifier) ==
    IF identifier = NoIdentifier THEN <<"">> ELSE identifier

\* backend ContentExtractor.extract_from_manifest / _extract_from_items
extract_from_manifest(m) ==
    <<[id |-> <<"org">> \o BackendIdentifier(m.org) \o <<"title">>, text |-> <<"org">>]>>
    \o [j \in 1..Len(m.items) |->
          [id |-> <<"item">> \o BackendIdentifier(m.items[j]) \o <<"title">>,
           text |-> <<"item", ToString(j)>>]]

\* backend ContentExtractor.extract_from_html_file: one counter runs over the
\* elements of each tag of TRANSLATABLE_TAGS, then over the elements that
\* hold each attribute of TRANSLATABLE_ATTRIBUTES, both in set order
extract_from_html_file(elems, seed) ==
    LET byTag == Flatten([t \in 1..Len(seed.tags) |->
                    [k \in 1..Len(SelectSeq(elems, LAMBDA e : e.tag = seed.tags[t])) |->
                        [part |-> <<seed.tags[t]>>, text |-> ElemText]]])
        byAttr == Flatten([a \in 1..Len(seed.attrs) |->
                    [k \in 1..Len(SelectSeq(elems, LAMBDA e : seed.attrs[a] \in e.attrs)) |->
                        [part |-> <<"attr", seed.attrs[a]>>, text |-> AttrText(seed.attrs[a])]]])
        found == byTag \o byAttr
    IN [segment_counter \in 1..Len(found) |->
          [id |-> <<"html">> \o found[segment_counter].part \o <<ToString(segment_counter)>>,
           text |-> found[segment_counter].text]]

\* backend ContentExtractor.extract_from_scorm_package over the files in the
\* order ScormParser._find_html_files listed them; the page that hosts a Rise
\* course has no element of TRANSLATABLE_TAGS
extract_from_scorm_package(pkg, seed) ==
    extract_from_manifest(pkg.manifest)
    \o Flatten([n \in 1..Len(seed.listing) |->
          IF pkg.files[seed.listing[n]].kind = "html"
          THEN extract_from_html_file(pkg.files[seed.listing[n]].elems, seed)
          ELSE <<>>])

ExtractWith(path, pkg, seed) ==
    IF path = "cli" THEN CliExtractAll(pkg, seed) ELSE extract_from_scorm_package(pkg, seed)

\* first extraction of a package
ExtractOnce ==
    /\ idsPc = "idle"
    /\ \E path \in {"cli", "backend"} : \E pkg \in Packages : \E seed \in HashSeeds :
          /\ idsPath' = path
          /\ idsPackage' = pkg
          /\ idsRun1' = ExtractWith(path, pkg, seed)
    /\ idsPc' = "once"
    /\ UNCHANGED idsRun2

\* second extraction of the same package, by the same or by another process
ExtractAgain ==
    /\ idsPc = "once"
    /\ \E seed \in HashSeeds : idsRun2' = ExtractWith(idsPath, idsPackage, seed)
    /\ idsPc' = "twice"
    /\ UNCHANGED <<idsPath, idsPackage, idsRun1>>

IdsInit == IdsIdle /\ NonIdsIdle

IdsNext ==
    \/ ExtractOnce /\ UNCHANGED nonIdsVars
    \/ ExtractAgain /\ UNCHANGED nonIdsVars

SpecIds == IdsInit /\ [][IdsNext]_vars

\* C7: within one package no two extracted segments share a segment id.
C7_SegmentIdsDistinct ==
    idsPc # "idle" =>
        \A i, j \in 1..Len(idsRun1) : idsRun1[i].id = idsRun1[j].id => i = j

\* C8: extracting the same package twice yields the identical sequence of
\* segments: same ids, same order, same original texts.
C8_ExtractionDeterministic ==
    idsPc = "twice" => idsRun2 = idsRun1

(***************************************************************************)
(* 4.C / 4.E  Articulate Rise: extraction from, and write-back into, the   *)
(* course JSON of one file (command line tool).                            *)
(***************************************************************************)
RiseDocs == SUBSET (1..Len(RisePaths))

\* the text the translation backend returns for a text
RiseTranslated(text) == <<"tr">> \o text

\* Translator._translate_segment_safe for segments[1..n], in order, with
\* the outcome of each call given by outcomes
RECURSIVE RiseTranslateUpTo(_, _, _)
RiseTranslateUpTo(segments, outcomes, n) ==
    IF n = 0 THEN <<>>
    ELSE LET before == RiseTranslateUpTo(segments, outcomes, n - 1)
             seg == segments[n]
             stored == IF outcomes[n] = "ok" THEN RiseTranslated(seg.text) ELSE seg.text
         IN IF outcomes[n] = "empty" THEN before
            ELSE [id \in DOMAIN before \cup {seg.id} |->
                     IF id = seg.id THEN stored ELSE before[id]]

\* ScormRebuilder._apply_to_json: every string of the JSON whose recomputed
\* id is a key of translations is replaced
_apply_to_json(data, translations) ==
    [k \in DOMAIN data |->
        IF RiseSegId(RisePaths[k]) \in DOMAIN translations
        THEN translations[RiseSegId(RisePaths[k])]
        ELSE data[k]]

\* ContentExtractor._extract_rise on the course JSON of the file
RiseExtract ==
    /\ risePc = "idle"
    /\ \E doc \in RiseDocs :
          /\ riseDoc' = doc
          /\ riseSegments' = _extract_rise(doc)
          /\ riseData' = [k \in doc |-> RiseOriginal(k)]
    /\ risePc' = "extracted"
    /\ UNCHANGED riseTranslations

\* Translator.translate (main._run_translation returns early without segments)
RiseTranslate ==
    /\ risePc = "extracted"
    /\ riseSegments # <<>>
    /\ \E outcomes \in [1..Len(riseSegments) -> CliOutcomes] :
          riseTranslations' = RiseTranslateUpTo(riseSegments, outcomes, Len(riseSegments))
    /\ risePc' = "translated"
    /\ UNCHANGED <<riseDoc, riseSegments, riseData>>

\* ScormRebuilder._apply_to_rise: decode, _apply_to_json, _encode_rise_content
RiseApply ==
    /\ risePc = "translated"
    /\ riseData' = _apply_to_json(riseData, riseTranslations)
    /\ risePc' = "applied"
    /\ UNCHANGED <<riseDoc, riseSegments, riseTranslations>>

RiseInit == RiseIdle /\ NonRiseIdle

RiseNext ==
    \/ RiseExtract /\ UNCHANGED nonRiseVars
    \/ RiseTranslate /\ UNCHANGED nonRiseVars
    \/ RiseApply /\ UNCHANGED nonRiseVars

SpecRise == RiseInit /\ [][RiseNext]_vars

\* the leaf is stored under a key of the skip set, or beneath such a key
UnderSkipKey(k) ==
    \E i \in 1..Len(RisePaths[k]) : _is_skippable_key(RisePaths[k][i])

\* C10: after _apply_to_rise every string stored under a key of the skip
\* set, or beneath such a key, equals its original value.
C10_SkipKeysUnchanged ==
    risePc = "applied" =>
        \A k \in riseDoc : UnderSkipKey(k) => riseData[k] = RiseOriginal(k)

(***************************************************************************)
(* 4.E  Articulate Rise: decoding and re-encoding of the course payload.   *)
(*                                                                         *)
(* A JSON text is a sequence of tokens: punctuation, white space and       *)
(* string literals.  A string literal has its value and says whether the   *)
(* text spells a character of it as a \uXXXX escape.  A base64 payload has *)
(* the bytes it decodes to and says whether its unused trailing bits are   *)
(* zero.                                                                   *)
(***************************************************************************)
\* the leaves of RisePaths the course model of the page may hold: title, slug
EncLeaves == {1, 6}

\* the strings a leaf may hold: plain text, or text with an accented letter
EncValues(k) == {RiseOriginal(k), <<"text", "e-acute">>}

EncDatas ==
    UNION {{data \in [d -> UNION {EncValues(k) : k \in d}] :
               \A k \in d : data[k] \in EncValues(k)} :
           d \in (SUBSET EncLeaves) \ {{}}}

Punct(c) == [kind |-> "punct", str |-> <<c>>, escaped |-> FALSE]
Space == [kind |-> "space", str |-> <<" ">>, escaped |-> FALSE]
StringLiteral(value, escaped) == [kind |-> "string", str |-> value, escaped |-> escaped]

\* how the producer of the package wrote the JSON text
JsonStyles ==
    [item_separator : {<<Punct(",")>>, <<Punct(","), Space>>},
     key_separator : {<<Punct(":")>>, <<Punct(":"), Space>>},
     escaped : BOOLEAN]

\* the top-level key of a leaf
KeyOf(k) == RisePaths[k][1]

\* the members of an object, from the n-th leaf of ks on
RECURSIVE JsonMembers(_, _, _, _)
JsonMembers(data, ks, n, style) ==
    IF n > Len(ks) THEN <<>>
    ELSE (IF n = 1 THEN <<>> ELSE style.item_separator)
         \o <<StringLiteral(KeyOf(ks[n]), FALSE)>>
         \o style.key_separator
         \o <<StringLiteral(data[ks[n]], style.escaped)>>
         \o JsonMembers(data, ks, n + 1, style)

JsonText(data, style) ==
    <<Punct("{")>>
    \o JsonMembers(data, IndexSeq(DOMAIN data, Len(RisePaths)), 1, style)
    \o <<Punct("}")>>

\* json.dumps(data, ensure_ascii=False): ', ' and ': ' separators, no escapes
json_dumps(data) ==
    JsonText(data, [item_separator |-> <<Punct(","), Space>>,
                    key_separator |-> <<Punct(":"), Space>>,
                    escaped |-> FALSE])

\* json.loads(text): the string literals are keys and values in turn
json_loads(text) ==
    LET strings == SelectSeq(text, LAMBDA t : t.kind = "string")
        keyAt(k) == CHOOSE i \in 1..Len(strings) : i % 2 = 1 /\ strings[i].str = KeyOf(k)
    IN [k \in {l \in EncLeaves :
                  \E i \in 1..Len(strings) : i % 2 = 1 /\ strings[i].str = KeyOf(l)} |->
          strings[keyAt(k) + 1].str]

\* base64.b64decode / base64.b64encode
b64decode(payload) == payload.bytes
b64encode(bytes) == [bytes |-> bytes, canonical |-> TRUE]

EncPayloads(data) ==
    {[bytes |-> JsonText(data, style), canonical |-> c] :
        style \in JsonStyles, c \in BOOLEAN}

\* the TranslationMaps that change nothing: the empty one, and the one that
\* maps every extracted segment to its own text
EncMaps(data) ==
    LET segments == _extract_rise(DOMAIN data)
        ids == {segments[i].id : i \in 1..Len(segments)}
    IN {<<>>,
        [id \in ids |-> data[CHOOSE k \in DOMAIN data : RiseSegId(RisePaths[k]) = id]]}

\* the page is read and the payload of deserialize("...") is captured
EncCapture ==
    /\ encPc = "idle"
    /\ \E data \in EncDatas : \E payload \in EncPayloads(data) :
          /\ encData' = data
          /\ encPayload' = payload
    /\ encPc' = "captured"
    /\ UNCHANGED <<encTranslations, encWritten>>

\* ScormRebuilder._apply_to_rise: _decode_rise_content, _apply_to_json,
\* _encode_rise_content
EncApply ==
    /\ encPc = "captured"
    /\ \E translations \in EncMaps(encData) :
          /\ encTranslations' = translations
          /\ encWritten' =
               b64encode(json_dumps(_apply_to_json(json_loads(b64decode(encPayload)),
                                                   translations)))
    /\ encPc' = "written"
    /\ UNCHANGED <<encData, encPayload>>

EncInit == EncIdle /\ NonEncIdle

EncNext ==
    \/ EncCapture /\ UNCHANGED nonEncVars
    \/ EncApply /\ UNCHANGED nonEncVars

SpecEnc == EncInit /\ [][EncNext]_vars

\* C11: re-encoding a course model that was not changed writes back the
\* captured payload, byte for byte.
C11_ReencodeByteIdentical ==
    encPc = "written" => encWritten = encPayload

(***************************************************************************)
(* 5  Resources of one job: the scratch directory the package is extracted *)
(* into and the working copy of each target language.                      *)
(***************************************************************************)
MaxLangs == 3
Languages == {"ca", "en"}
LangLists == SeqsOf(Languages, 1, MaxLangs)

\* CLI main / _run_batch: tempfile.mkdtemp();
\* backend: a job is handed to ScormParser.parse_scorm_package
JobStart ==
    /\ jobPc = "idle"
    /\ \E kind \in {"cli", "backend"} : \E langs \in LangLists :
          /\ jobKind' = kind
          /\ jobLangs' = langs
    /\ jobPc' = "started"
    /\ UNCHANGED <<jobDone, jobScratch, jobWork, jobOutcome>>

\* CLI _parse_and_extract inside the try/finally of main: on an exception,
\* and when no segment was found, the finally block removes temp_dir.
\* Backend parse_scorm_package: a package that fails validation raises
\* before extract_path is made; an exception after that removes extract_path;
\* on success extract_path is handed to the caller.
JobParse ==
    /\ jobPc = "started"
    /\ \E result \in {"ok", "no_segments", "invalid", "error"} :
          \/ /\ result = "ok"
             /\ jobScratch' = TRUE
             /\ jobPc' = "parsed"
             /\ UNCHANGED jobOutcome
          \/ /\ result = "no_segments"
             /\ jobKind = "cli"
             /\ jobScratch' = FALSE
             /\ jobPc' = "returned"
             /\ jobOutcome' = "no_segments"
          \/ /\ result \in {"invalid", "error"}
             /\ jobScratch' = FALSE
             /\ jobPc' = "returned"
             /\ jobOutcome' = "parse_error"
    /\ UNCHANGED <<jobKind, jobLangs, jobDone, jobWork>>

\* CLI ScormRebuilder.rebuild: work_<lang> is made by _prepare_working_dir
\* and removed after _create_zip returned; an exception in between leaves it
CliWorkAfter(work, lang, result) ==
    IF result = "ok" THEN work \ {lang} ELSE work \cup {lang}

\* backend ScormRebuilder.rebuild_scorm: the mkdtemp copy is removed in the
\* finally block
BackendWorkAfter(work, lang, result) == work \ {lang}

\* translation and rebuild of the next target language; after the last one
\* the job returns.  CLI: _process_single_language, then the finally block
\* of main removes temp_dir.  Backend: rebuild_scorm; no caller removes the
\* extract_path of the package (ScormParser.cleanup is never called).
JobRebuild ==
    /\ jobPc = "parsed"
    /\ jobDone < Len(jobLangs)
    /\ \E result \in {"ok", "copy_error", "zip_error"} :
          LET lang == jobLangs[jobDone + 1]
              last == jobDone + 1 = Len(jobLangs)
          IN /\ jobWork' = IF jobKind = "cli"
                           THEN CliWorkAfter(jobWork, lang, result)
                           ELSE BackendWorkAfter(jobWork, lang, result)
             /\ jobDone' = IF result = "ok" THEN jobDone + 1 ELSE jobDone
             /\ jobPc' = IF result = "ok" /\ ~last THEN "parsed" ELSE "returned"
             /\ jobOutcome' = IF result # "ok" THEN "rebuild_error"
                              ELSE IF last THEN "success" ELSE jobOutcome
             /\ jobScratch' = IF jobKind = "cli" /\ (result # "ok" \/ last)
                              THEN FALSE ELSE jobScratch
    /\ UNCHANGED <<jobKind, jobLangs>>

JobInit == JobIdle /\ NonJobIdle

JobNext ==
    \/ JobStart /\ UNCHANGED nonJobVars
    \/ JobParse /\ UNCHANGED nonJobVars
    \/ JobRebuild /\ UNCHANGED nonJobVars

SpecJob == JobInit /\ [][JobNext]_vars

\* C12: on every exit path of a job the scratch directory and every
\* per-language working copy have been deleted when the job returns.
C12_CleanupOnEveryExit ==
    jobPc = "returned" => (~jobScratch /\ jobWork = {})

(***************************************************************************)
(* 4.D / 4.E  Partial TranslationMaps on a generic HTML file.              *)
(***************************************************************************)
\* some segment of the file has no entry in the TranslationMap
SomeIdAbsent ==
    \E i \in 1..Len(htmlSegments) : htmlSegments[i].id \notin DOMAIN htmlTranslations

\* C13: a segment whose id is absent from the TranslationMap keeps its
\* original text at its location while the segments present in the map are
\* translated; with an empty map the file is unchanged.
C13_AbsentIdsKeepOriginal ==
    (htmlPc = "rebuilt" /\ SomeIdAbsent) =>
        /\ \A i \in 1..Len(htmlSegments) :
              LET seg == htmlSegments[i]
              IN IF seg.id \in DOMAIN htmlTranslations
                 THEN TextAt(htmlContent, seg.elem) = htmlTranslations[seg.id]
                 ELSE TextAt(htmlContent, seg.elem) = seg.text
        /\ htmlTranslations = <<>> => htmlContent = Raw(htmlDoc)

(***************************************************************************)
(* 5  Two jobs running at the same time: the directories they use.         *)
(***************************************************************************)
Jobs == {1, 2}
Stems == {"curso", "tema"}
OutputDirs == {"out", "traducidos"}

JobParams == [kind : {"cli", "backend"}, stem : Stems, lang : Languages, output_dir : OutputDirs]

\* CLI: ScormParser(temp_dir).parse with temp_dir = tempfile.mkdtemp() of the
\* run; backend: Path(self.temp_dir) / f"scorm_{stem}" with temp_dir =
\* tempfile.gettempdir()
ScratchPath(j, params) ==
    IF params.kind = "cli"
    THEN <<"tmp", "mkdtemp", ToString(j), "scorm_" \o params.stem>>
    ELSE <<"tmp", "scorm_" \o params.stem>>

\* CLI: output_dir / f"work_{target_lang}"; backend: tempfile.mkdtemp()
WorkPath(j, params) ==
    IF params.kind = "cli"
    THEN <<params.output_dir, "work_" \o params.lang>>
    ELSE <<"tmp", "mkdtemp", ToString(j)>>

\* job j reads, writes or deletes path
Touch(touched, path, j) ==
    [q \in DOMAIN touched \cup {path} |->
        IF q = path
        THEN (IF q \in DOMAIN touched THEN touched[q] ELSE {}) \cup {j}
        ELSE touched[q]]

\* the accesses of the jobs that are still running
Live(touched) ==
    [q \in DOMAIN touched |-> {i \in touched[q] : concPc[i] \notin {"done", "failed"}}]

\* the directory at path holds the files of job j
WriteDir(dirs, path, j) ==
    [q \in DOMAIN dirs \cup {path} |-> IF q = path THEN j ELSE dirs[q]]

\* shutil.rmtree(path)
RemoveDir(dirs, path) == [q \in DOMAIN dirs \ {path} |-> dirs[q]]

\* two jobs are submitted
ConcSubmit ==
    /\ concPc = <<>>
    /\ \E params \in [Jobs -> JobParams] : concJobs' = params
    /\ concPc' = [j \in Jobs |-> "new"]
    /\ UNCHANGED <<concDirs, concTouched>>

\* CLI ScormParser._extract_zip / backend parse_scorm_package: the archive is
\* extracted into the scratch directory (mkdir with exist_ok=True); the
\* backend removes the directory when parsing raises
ConcExtractOf(j) ==
    LET path == ScratchPath(j, concJobs[j])
    IN /\ concPc[j] = "new"
       /\ concTouched' = Touch(Live(concTouched), path, j)
       /\ \E ok \in BOOLEAN :
             IF ok
             THEN /\ concDirs' = WriteDir(concDirs, path, j)
                  /\ concPc' = [concPc EXCEPT ![j] = "extracted"]
             ELSE /\ concDirs' = RemoveDir(concDirs, path)
                  /\ concPc' = [concPc EXCEPT ![j] = "failed"]
       /\ UNCHANGED concJobs

ConcExtract == \E j \in DOMAIN concPc : ConcExtractOf(j)

\* CLI _prepare_working_dir: rmtree of an existing working_dir, then
\* copytree of the scratch directory; backend rebuild_scorm: mkdtemp and
\* copytree(source_dir, temp_dir)
ConcPrepareOf(j) ==
    LET scratch == ScratchPath(j, concJobs[j])
        work == WorkPath(j, concJobs[j])
    IN /\ concPc[j] = "extracted"
       /\ concTouched' = Touch(Touch(Live(concTouched), scratch, j), work, j)
       /\ concDirs' = WriteDir(concDirs, work, j)
       /\ concPc' = [concPc EXCEPT ![j] = "prepared"]
       /\ UNCHANGED concJobs

ConcPrepare == \E j \in DOMAIN concPc : ConcPrepareOf(j)

\* CLI: _apply_translations_to_files, _create_zip, rmtree(working_dir), then
\* main's finally removes temp_dir; backend: apply, _create_zip, and the
\* finally block removes the working copy
ConcFinishOf(j) ==
    LET scratch == ScratchPath(j, concJobs[j])
        work == WorkPath(j, concJobs[j])
    IN /\ concPc[j] = "prepared"
       /\ concTouched' = Touch(Live(concTouched), work, j)
       /\ concDirs' = IF concJobs[j].kind = "cli"
                      THEN RemoveDir(RemoveDir(concDirs, work), scratch)
                      ELSE RemoveDir(concDirs, work)
       /\ concPc' = [concPc EXCEPT ![j] = "done"]
       /\ UNCHANGED concJobs

ConcFinish == \E j \in DOMAIN concPc : ConcFinishOf(j)

ConcInit == ConcIdle /\ NonConcIdle

ConcNext ==
    \/ ConcSubmit /\ UNCHANGED nonConcVars
    \/ ConcExtract /\ UNCHANGED nonConcVars
    \/ ConcPrepare /\ UNCHANGED nonConcVars
    \/ ConcFinish /\ UNCHANGED nonConcVars

SpecConc == ConcInit /\ [][ConcNext]_vars

\* C14: two jobs running concurrently never read, write or delete the same
\* scratch directory or working copy (concTouched holds the accesses of the
\* jobs that were running when the last step was taken).
C14_JobsShareNoDirectory ==
    \A path \in DOMAIN concTouched : Cardinality(concTouched[path]) <= 1


\* ---------------------------------------------------------------------------
\* SpecTask: the Celery task translate_scorm_task and the progress it writes
\* to the job row
\* (src/backend/app/tasks/translation_tasks.py 28-253,
\*  src/backend/app/services/translation_service.py 87-98,
\*  src/backend/app/services/job_service.py 131-175)
\* ---------------------------------------------------------------------------

MaxTaskLangs == 3

\* TranslationTask.retry_kwargs = {"max_retries": 3}
max_retries == 3

\* the _update_progress calls of translate_scorm_task that precede the
\* construction of the translator, in program order (lines 77, 83, 88, 108,
\* 119, 124)
FirstUpdates ==
    << <<"VALIDATING", 0>>, <<"VALIDATING", 10>>, <<"PARSING", 10>>,
       <<"PARSING", 25>>, <<"PARSING", 40>>, <<"TRANSLATING", 40>> >>

\* TranslationService.__init__(self, api_key: str): a call without the
\* required argument raises TypeError
TranslationService(args) ==
    IF "api_key" \in DOMAIN args THEN "instance" ELSE "TypeError"

\* upload endpoint: the job row exists with status UPLOADED and progress 0,
\* and the task is queued with its target languages
TaskSubmit ==
    /\ taskPc = "none"
    /\ \E n \in 1..MaxTaskLangs : taskLangs' = n
    /\ taskPc' = "queued"
    /\ taskStatus' = "UPLOADED"
    /\ taskPercent' = 0
    /\ UNCHANGED taskRetries

\* a worker starts executing the task body
TaskRun ==
    /\ taskPc = "queued"
    /\ taskPc' = <<"update", 1>>
    /\ UNCHANGED <<taskLangs, taskRetries, taskStatus, taskPercent>>

\* _update_progress(job_uuid, status, progress): the row is updated, or the
\* update raises and the exception is logged and swallowed
TaskUpdate ==
    /\ taskPc \in {<<"update", i>> : i \in 1..Len(FirstUpdates)}
    /\ LET i == taskPc[2]
       IN /\ \E stored \in BOOLEAN :
                IF stored
                THEN /\ taskStatus' = FirstUpdates[i][1]
                     /\ taskPercent' = FirstUpdates[i][2]
                ELSE UNCHANGED <<taskStatus, taskPercent>>
          /\ taskPc' = IF i < Len(FirstUpdates) THEN <<"update", i + 1>>
                       ELSE "construct"
    /\ UNCHANGED <<taskLangs, taskRetries>>

\* line 130: translator = TranslationService(), called with no argument;
\* the TypeError leaves the with block and reaches `except Exception`
TaskConstruct ==
    /\ taskPc = "construct"
    /\ taskPc' = IF TranslationService(<<>>) = "TypeError" THEN "except"
                 ELSE "translate"
    /\ UNCHANGED <<taskLangs, taskRetries, taskStatus, taskPercent>>

\* lines 220-231: job_service.update_job_status(status=FAILED, error_message)
\* with progress=None (the percentage column is not written), then re-raise
TaskExcept ==
    /\ taskPc = "except"
    /\ \E stored \in BOOLEAN :
          taskStatus' = IF stored THEN "FAILED" ELSE taskStatus
    /\ taskPc' = "raised"
    /\ UNCHANGED <<taskLangs, taskRetries, taskPercent>>

\* TranslationTask.autoretry_for = (Exception,): Celery runs the task again
\* until max_retries is exhausted
TaskRetry ==
    /\ taskPc = "raised"
    /\ IF taskRetries < max_retries
       THEN /\ taskRetries' = taskRetries + 1
            /\ taskPc' = "queued"
       ELSE /\ taskPc' = "dead"
            /\ UNCHANGED taskRetries
    /\ UNCHANGED <<taskLangs, taskStatus, taskPercent>>

TaskInit == TaskIdle /\ NonTaskIdle

TaskNext ==
    \/ TaskSubmit /\ UNCHANGED nonTaskVars
    \/ TaskRun /\ UNCHANGED nonTaskVars
    \/ TaskUpdate /\ UNCHANGED nonTaskVars
    \/ TaskConstruct /\ UNCHANGED nonTaskVars
    \/ TaskExcept /\ UNCHANGED nonTaskVars
    \/ TaskRetry /\ UNCHANGED nonTaskVars

SpecTask == TaskInit /\ [][TaskNext]_vars

StatusRank(status) ==
    CASE status \in {"none", "UPLOADED"} -> 0
      [] status = "VALIDATING" -> 1
      [] status = "PARSING" -> 2
      [] status = "TRANSLATING" -> 3
      [] status = "REBUILDING" -> 4
      [] status = "COMPLETED" -> 5
      [] OTHER -> 6

PercentInRange(status, percent) ==
    CASE status \in {"none", "UPLOADED", "VALIDATING", "PARSING"} ->
             percent \in 0..40
      [] status = "TRANSLATING" -> percent \in 40..80
      [] status = "REBUILDING" -> percent \in 80..100
      [] status = "COMPLETED" -> percent = 100
      [] OTHER -> TRUE

MaxCancelSegs == 2

cancelState == <<cancelLangs, cancelSeg, cancelWork, cancelOutput>>

\* the exception leaves _run_translation: no handler on the way removes
\* work_<lang> or the archive being written; main's finally removes the
\* scratch directory only
Interrupted ==
    /\ cancelPc' = "ended"
    /\ cancelOutcome' = "interrupted"
    /\ cancelPending' = FALSE
    /\ UNCHANGED <<cancelDeferred, cancelState>>

\* main: python traductor.py curso.zip --idioma <langs>
CancelStart ==
    /\ cancelPc = "none"
    /\ \E langs \in LangLists, deferred \in BOOLEAN :
          /\ Len(langs) >= 1
          /\ cancelLangs' = langs
          /\ cancelDeferred' = deferred
    /\ cancelPc' = "translate"
    /\ UNCHANGED <<cancelPending, cancelSeg, cancelWork, cancelOutput,
                   cancelOutcome>>

\* SIGINT arrives while the run is working: KeyboardInterrupt is raised in
\* the running code, or the main task is cancelled and CancelledError is
\* raised at its next await
CancelSignal ==
    /\ cancelPc \notin {"none", "ended"}
    /\ ~cancelPending
    /\ IF cancelDeferred
       THEN /\ cancelPending' = TRUE
            /\ UNCHANGED <<cancelPc, cancelDeferred, cancelState,
                           cancelOutcome>>
       ELSE Interrupted

\* Translator.translate: one iteration of `for i, seg in enumerate(segments)`;
\* _translate_segment_safe awaits the executor call and catches Exception
\* only, which CancelledError is not
CancelTranslateSegment ==
    /\ cancelPc = "translate"
    /\ IF cancelPending
       THEN Interrupted
       ELSE /\ IF cancelSeg < MaxCancelSegs
               THEN /\ cancelSeg' = cancelSeg + 1
                    /\ UNCHANGED cancelPc
               ELSE /\ cancelSeg' = 0
                    /\ cancelPc' = "prepare"
            /\ UNCHANGED <<cancelDeferred, cancelPending, cancelLangs,
                           cancelWork, cancelOutput, cancelOutcome>>

\* ScormRebuilder._prepare_working_dir: work_<lang> is removed when it exists
\* and copied from the scratch directory
CancelPrepare ==
    /\ cancelPc = "prepare"
    /\ cancelWork' = cancelWork \cup {cancelLangs[1]}
    /\ cancelPc' = "apply"
    /\ UNCHANGED <<cancelDeferred, cancelPending, cancelLangs, cancelSeg,
                   cancelOutput, cancelOutcome>>

\* ScormRebuilder._apply_translations_to_files
CancelApply ==
    /\ cancelPc = "apply"
    /\ cancelPc' = "zip_open"
    /\ UNCHANGED <<cancelDeferred, cancelPending, cancelState, cancelOutcome>>

\* _create_zip: zipfile.ZipFile(output_path, 'w') creates <stem>_<lang>.zip
\* in the output directory and the entries are written into it
CancelZipOpen ==
    /\ cancelPc = "zip_open"
    /\ cancelOutput' =
          [l \in DOMAIN cancelOutput \cup {cancelLangs[1]} |->
              IF l = cancelLangs[1] THEN "partial" ELSE cancelOutput[l]]
    /\ cancelPc' = "zip_write"
    /\ UNCHANGED <<cancelDeferred, cancelPending, cancelLangs, cancelSeg,
                   cancelWork, cancelOutcome>>

\* _create_zip: the with block closes the archive (central directory written)
CancelZipClose ==
    /\ cancelPc = "zip_write"
    /\ cancelOutput' = [cancelOutput EXCEPT ![cancelLangs[1]] = "complete"]
    /\ cancelPc' = "rmwork"
    /\ UNCHANGED <<cancelDeferred, cancelPending, cancelLangs, cancelSeg,
                   cancelWork, cancelOutcome>>

\* rebuild: shutil.rmtree(working_dir, ignore_errors=True); _run_translation
\* goes on with the next language or returns
CancelRmWork ==
    /\ cancelPc = "rmwork"
    /\ cancelWork' = cancelWork \ {cancelLangs[1]}
    /\ cancelLangs' = Tail(cancelLangs)
    /\ IF Len(cancelLangs) > 1
       THEN /\ cancelPc' = "translate"
            /\ UNCHANGED cancelOutcome
       ELSE /\ cancelPc' = "ended"
            /\ cancelOutcome' = "ok"
    /\ UNCHANGED <<cancelDeferred, cancelPending, cancelSeg, cancelOutput>>

CancelInit == CancelIdle /\ NonCancelIdle

CancelNext ==
    \/ CancelStart /\ UNCHANGED nonCancelVars
    \/ CancelSignal /\ UNCHANGED nonCancelVars
    \/ CancelTranslateSegment /\ UNCHANGED nonCancelVars
    \/ CancelPrepare /\ UNCHANGED nonCancelVars
    \/ CancelApply /\ UNCHANGED nonCancelVars
    \/ CancelZipOpen /\ UNCHANGED nonCancelVars
    \/ CancelZipClose /\ UNCHANGED nonCancelVars
    \/ CancelRmWork /\ UNCHANGED nonCancelVars

SpecCancel == CancelInit /\ [][CancelNext]_vars

\* C16: a run ended by a cancel signal has skipped the remaining languages,
\* leaves no working copy and no output archive of a language whose rebuild
\* did not complete
C16_CancelLeavesNothingPartial ==
    (cancelPc = "ended" /\ cancelOutcome = "interrupted") =>
        /\ cancelWork = {}
        /\ \A l \in DOMAIN cancelOutput : cancelOutput[l] = "complete"


\* ---------------------------------------------------------------------------
\* SpecWalk: which strings of a Rise course JSON become segments
\* (src/traductor.py 241-242 RISE_FIELDS, 345-401 _extract_from_json ..
\*  _process_json_value, 447-462 _clean_html, _is_non_text)
\* ---------------------------------------------------------------------------

MaxWalkLeaves == 2

\* the leaves a course JSON can hold, in document order:
\*   paragraph, Title, buttonText, slug, labelSet.labels.x, settings.title
WalkPaths ==
    << << <<"paragraph">> >>,
       << <<"Title">> >>,
       << <<"buttonText">> >>,
       << <<"slug">> >>,
       << <<"labelSet">>, <<"labels">>, <<"x">> >>,
       << <<"settings">>, <<"title">> >> >>

HexToken == [i \in 1..32 |-> IF i % 2 = 0 THEN "a" ELSE "0"]

\* the strings a leaf can hold, character by character:
\*   Hola, Hi, <p>Hi</p>, <p>Hola</p>, http://x, #fff, 1.5, " a ",
\*   and a token of 32 hexadecimal digits
WalkValues ==
    { <<"H", "o", "l", "a">>,
      <<"H", "i">>,
      <<"<", "p", ">", "H", "i", "<", "/", "p", ">">>,
      <<"<", "p", ">", "H", "o", "l", "a", "<", "/", "p", ">">>,
      <<"h", "t", "t", "p", ":", "/", "/", "x">>,
      <<"#", "f", "f", "f">>,
      <<"1", ".", "5">>,
      <<" ", "a", " ">>,
      HexToken }

WalkDatas ==
    UNION {[d -> WalkValues] :
           d \in {e \in SUBSET (1..Len(WalkPaths)) :
                     Cardinality(e) \in 1..MaxWalkLeaves}}

Digits == {"0", "1", "2", "3", "4", "5", "6", "7", "8", "9"}
HexLower == Digits \cup {"a", "b", "c", "d", "e", "f"}

LowerChar(c) ==
    CASE c = "A" -> "a" [] c = "B" -> "b" [] c = "C" -> "c"
      [] c = "D" -> "d" [] c = "E" -> "e" [] c = "F" -> "f"
      [] c = "H" -> "h" [] OTHER -> c

Contains(str, c) == \E i \in 1..Len(str) : str[i] = c

\* str.startswith(prefix)
StartsWith(str, prefix) ==
    Len(str) >= Len(prefix) /\ SubSeq(str, 1, Len(prefix)) = prefix

\* str.strip()
RECURSIVE strip(_)
strip(str) ==
    IF str = <<>> THEN <<>>
    ELSE IF Head(str) = " " THEN strip(Tail(str))
    ELSE IF str[Len(str)] = " " THEN strip(SubSeq(str, 1, Len(str) - 1))
    ELSE str

\* the characters of html outside its tags; inTag is TRUE between a '<' and
\* the next '>'
RECURSIVE TextOutsideTags(_, _)
TextOutsideTags(html, inTag) ==
    IF html = <<>> THEN <<>>
    ELSE IF Head(html) = "<" THEN TextOutsideTags(Tail(html), TRUE)
    ELSE IF Head(html) = ">" /\ inTag THEN TextOutsideTags(Tail(html), FALSE)
    ELSE IF inTag THEN TextOutsideTags(Tail(html), TRUE)
    ELSE <<Head(html)>> \o TextOutsideTags(Tail(html), FALSE)

\* ContentExtractor._clean_html: BeautifulSoup(html).get_text(separator=' ',
\* strip=True), for markup that holds one text node
_clean_html(html) == strip(TextOutsideTags(html, FALSE))

\* ContentExtractor._is_non_text
_is_non_text(text) ==
    \/ StartsWith(text, <<"h", "t", "t", "p", ":", "/", "/">>)
    \/ StartsWith(text, <<"h", "t", "t", "p", "s", ":", "/", "/">>)
    \/ StartsWith(text, <<"/", "/">>)
    \/ StartsWith(text, <<"m", "a", "i", "l", "t", "o", ":">>)
    \/ /\ Len(text) >= 32
       /\ \A i \in 1..Len(text) : LowerChar(text[i]) \in HexLower \cup {"-"}
    \/ /\ Head(text) = "#"
       /\ Len(text) - 1 \in 3..8
       /\ \A i \in 2..Len(text) : LowerChar(text[i]) \in HexLower
    \/ \A i \in 1..Len(text) : text[i] \in Digits \cup {".", ",", " "}

\* ContentExtractor._process_json_value: the segments appended for one
\* string value
_process_json_value(value, key, path) ==
    LET text == IF Contains(value, "<") THEN _clean_html(value) ELSE strip(value)
    IN IF Len(text) < 3 THEN <<>>
       ELSE IF ~_is_translatable_key(key, path) THEN <<>>
       ELSE IF _is_non_text(text) THEN <<>>
       ELSE << [id |-> RiseSegId(path), text |-> value, path |-> path,
                is_html |-> Contains(value, "<")] >>

\* the recursion of _extract_from_json reaches the leaf at path: none of its
\* keys is skippable
WalkReaches(path) == \A i \in 1..Len(path) : ~_is_skippable_key(path[i])

\* ContentExtractor._extract_from_json over the leaves 1..n of data, in
\* document order
RECURSIVE _extract_from_json(_, _)
_extract_from_json(data, n) ==
    IF n = 0 THEN <<>>
    ELSE LET before == _extract_from_json(data, n - 1)
             path == WalkPaths[n]
         IN IF n \in DOMAIN data /\ WalkReaches(path) /\ Len(data[n]) >= 3
            THEN before \o _process_json_value(data[n], path[Len(path)], path)
            ELSE before

\* _decode_rise_from_html: the course JSON of the page
WalkLoad ==
    /\ walkPc = "none"
    /\ \E data \in WalkDatas : walkData' = data
    /\ walkPc' = "loaded"
    /\ UNCHANGED walkSegments

\* _extract_rise: self._extract_from_json(data, "", segments)
WalkExtract ==
    /\ walkPc = "loaded"
    /\ walkSegments' = _extract_from_json(walkData, Len(WalkPaths))
    /\ walkPc' = "walked"
    /\ UNCHANGED walkData

WalkInit == WalkIdle /\ NonWalkIdle

WalkNext ==
    \/ WalkLoad /\ UNCHANGED nonWalkVars
    \/ WalkExtract /\ UNCHANGED nonWalkVars

SpecWalk == WalkInit /\ [][WalkNext]_vars

\* the key is, whatever its case, one of the content fields
InContentFields(key) ==
    Len(key) = 1 /\ \E field \in RISE_FIELDS : lower(key[1]) = lower(field)

UnderLabels(path) ==
    \E i \in 1..(Len(path) - 1) : path[i] = <<"labelSet">> /\ path[i + 1] = <<"labels">>

\* C17: after the walk, for every string of length >= 3 that is not under a
\* skipped key, a segment exists iff its key is a content field (whatever the
\* case) or its path holds labelSet.labels, and the value is not non-textual;
\* the segment carries the raw value, and is_html iff the value holds '<'
C17_WhitelistDecidesEmission ==
    walkPc = "walked" =>
        \A k \in DOMAIN walkData :
            LET path == WalkPaths[k]
                value == walkData[k]
                emitted == {i \in 1..Len(walkSegments) : walkSegments[i].path = path}
            IN (Len(value) >= 3 /\ WalkReaches(path)) =>
                  /\ emitted # {} <=>
                        /\ InContentFields(path[Len(path)]) \/ UnderLabels(path)
                        /\ ~_is_non_text(value)
                  /\ \A i \in emitted :
                        /\ walkSegments[i].text = value
                        /\ walkSegments[i].is_html = Contains(value, "<")


\* ---------------------------------------------------------------------------
\* SpecRetry: one batch handed to _translate_batch under its tenacity
\* decorator
\* (src/backend/app/services/translation_service.py 156-223,
\*  src/backend/app/services/providers/claude_provider.py 142-191)
\* ---------------------------------------------------------------------------

MaxRetryBatches == 2

\* stop=stop_after_attempt(3)
stop_after_attempt == 3

\* retry=retry_if_exception_type((RateLimitError, APIConnectionError))
TransientErrors == {"RateLimitError", "APIConnectionError"}

\* the subclasses of anthropic.APIError the call can raise
APIErrors == TransientErrors \cup {"BadRequestError"}

\* what client.messages.create followed by _parse_response can do
CallResults == {"ok"} \cup APIErrors \cup {"JSONDecodeError"}

\* the body of _translate_batch around the call: TranslationService catches
\* anthropic.APIError and raises TranslationServiceError in its place;
\* ClaudeTranslateProvider has no handler
RaisedByBody(kind, result) ==
    IF kind = "service" /\ result \in APIErrors THEN "TranslationServiceError"
    ELSE result

\* tenacity after an attempt that raised: an exception the retry predicate
\* rejects is re-raised, stop_after_attempt ends with RetryError
\* (reraise is not set), otherwise the call is made again after the wait
AfterAttempt(raised, attempt) ==
    IF raised \notin TransientErrors THEN [pc |-> "done", outcome |-> raised]
    ELSE IF attempt >= stop_after_attempt
         THEN [pc |-> "done", outcome |-> "RetryError"]
    ELSE [pc |-> "waiting", outcome |-> "none"]

\* translate_segments: the segments are split into batches and
\* self._translate_batch(batch, ...) is awaited for the first one
RetryStart ==
    /\ retryPc = "none"
    /\ \E kind \in {"service", "claude"}, n \in 1..MaxRetryBatches :
          /\ retryKind' = kind
          /\ retryBatches' = n
    /\ retryPc' = "calling"
    /\ UNCHANGED <<retryCalls, retryOutcome, retryResult>>

\* one attempt: the body of _translate_batch runs once
RetryAttempt ==
    /\ retryPc = "calling"
    /\ \E result \in CallResults :
          LET raised == RaisedByBody(retryKind, result)
              next == IF raised = "ok" THEN [pc |-> "done", outcome |-> "ok"]
                      ELSE AfterAttempt(raised, Len(retryCalls) + 1)
          IN /\ retryCalls' = Append(retryCalls, result)
             /\ retryPc' = next.pc
             /\ retryOutcome' = next.outcome
    /\ UNCHANGED <<retryKind, retryBatches, retryResult>>

\* wait=wait_exponential(multiplier=1, min=2, max=10) has elapsed
RetryWait ==
    /\ retryPc = "waiting"
    /\ retryPc' = "calling"
    /\ UNCHANGED <<retryKind, retryCalls, retryOutcome, retryBatches,
                   retryResult>>

\* translate_segments after _translate_batch: the translations are stored;
\* on an exception TranslationService raises TranslationServiceError, while
\* ClaudeTranslateProvider stores the originals and goes on
RetryBatchDone ==
    /\ retryPc = "done"
    /\ IF retryOutcome # "ok" /\ retryKind = "service"
       THEN /\ retryPc' = "raised"
            /\ UNCHANGED <<retryCalls, retryOutcome, retryBatches, retryResult>>
       ELSE /\ retryResult' = Append(retryResult,
                                     IF retryOutcome = "ok" THEN "translated"
                                     ELSE "original")
            /\ retryBatches' = retryBatches - 1
            /\ IF retryBatches > 1
               THEN /\ retryPc' = "calling"
                    /\ retryCalls' = <<>>
                    /\ retryOutcome' = "none"
               ELSE /\ retryPc' = "returned"
                    /\ UNCHANGED <<retryCalls, retryOutcome>>
    /\ UNCHANGED retryKind

RetryInit == RetryIdle /\ NonRetryIdle

RetryNext ==
    \/ RetryStart /\ UNCHANGED nonRetryVars
    \/ RetryAttempt /\ UNCHANGED nonRetryVars
    \/ RetryWait /\ UNCHANGED nonRetryVars
    \/ RetryBatchDone /\ UNCHANGED nonRetryVars

SpecRetry == RetryInit /\ [][RetryNext]_vars

\* C18: when _translate_batch has returned to its caller, every call that
\* failed with a transient error before the third attempt was followed by
\* another call, a call that failed with another error was the last one, at
\* most 3 calls were made, and a transient failure reached the caller only
\* after the third call
C18_TransientRetriedThreeTimes ==
    retryPc = "done" =>
        /\ Len(retryCalls) <= stop_after_attempt
        /\ \A i \in 1..Len(retryCalls) :
              /\ (retryCalls[i] \in TransientErrors /\ i < stop_after_attempt)
                    => Len(retryCalls) > i
              /\ retryCalls[i] \notin TransientErrors => Len(retryCalls) = i


\* ---------------------------------------------------------------------------
\* SpecApply: the rebuild of a package some of whose files fail while their
\* translations are applied
\* (src/traductor.py 565-604 rebuild, _apply_translations_to_files,
\*  666-786 _apply_to_manifest, _apply_to_rise, _apply_to_html;
\*  src/backend/app/services/scorm_rebuilder.py 58-278)
\* ---------------------------------------------------------------------------

MaxApplyFiles == 2

\* what can go wrong with one file: nothing; the file is not in the working
\* copy; reading or parsing it raises; an exception is raised in the segment
\* loop after some segments were applied in memory
ApplyFaults == {"none", "missing", "read_error", "loop_error"}

ApplyFileSets == SeqsOf([type : {"xml", "html"}, fault : ApplyFaults], 1, MaxApplyFiles)

\* CLI _apply_to_manifest / _apply_to_rise / _apply_to_html: the whole body
\* is inside try/except, and the file is written once, after the loop
CliApplyFile(file, content) ==
    IF file.fault = "none"
    THEN [content |-> "translated", raised |-> FALSE]
    ELSE [content |-> content, raised |-> FALSE]

\* backend _apply_translations_to_file: a missing file is skipped with a
\* warning; _apply_translations_to_xml catches the exceptions of its segment
\* loop and writes the tree with the segments that were applied;
\* every other exception leaves the function
BackendApplyFile(file, content) ==
    CASE file.fault = "none" -> [content |-> "translated", raised |-> FALSE]
      [] file.fault = "missing" -> [content |-> content, raised |-> FALSE]
      [] file.fault = "loop_error" /\ file.type = "xml" ->
            [content |-> "partial", raised |-> FALSE]
      [] OTHER -> [content |-> content, raised |-> TRUE]

\* the working copy is made: _prepare_working_dir (CLI), copytree (backend)
ApplyStart ==
    /\ applyPc = "none"
    /\ \E kind \in {"cli", "backend"}, files \in ApplyFileSets :
          /\ applyKind' = kind
          /\ applyFiles' = files
          /\ applyWork' = [i \in 1..Len(files) |->
                              IF files[i].fault = "missing" THEN "absent"
                              ELSE "original"]
    /\ applyPc' = "applying"
    /\ UNCHANGED <<applyIndex, applyOutput, applyOutcome>>

\* one iteration of the loop over the files of the extraction; in the
\* backend an exception leaves the loop, reaches `except Exception` of
\* rebuild_scorm and is raised as ScormRebuilderError after the working copy
\* is removed
ApplyFile ==
    /\ applyPc = "applying"
    /\ applyIndex < Len(applyFiles)
    /\ LET i == applyIndex + 1
           res == IF applyKind = "cli"
                  THEN CliApplyFile(applyFiles[i], applyWork[i])
                  ELSE BackendApplyFile(applyFiles[i], applyWork[i])
       IN IF res.raised
          THEN /\ applyPc' = "done"
               /\ applyOutcome' = "ScormRebuilderError"
               /\ UNCHANGED <<applyIndex, applyWork>>
          ELSE /\ applyWork' = [applyWork EXCEPT ![i] = res.content]
               /\ applyIndex' = i
               /\ UNCHANGED <<applyPc, applyOutcome>>
    /\ UNCHANGED <<applyKind, applyFiles, applyOutput>>

\* the loop has ended
ApplyLoopEnd ==
    /\ applyPc = "applying"
    /\ applyIndex = Len(applyFiles)
    /\ applyPc' = "zip"
    /\ UNCHANGED <<applyKind, applyFiles, applyIndex, applyWork, applyOutput,
                   applyOutcome>>

\* _create_zip: the CLI writes the entries of the original archive, with the
\* bytes of the working copy where the file exists there; the backend packs
\* the working copy
ApplyZip ==
    /\ applyPc = "zip"
    /\ applyOutput' = [i \in 1..Len(applyWork) |->
                          IF applyKind = "cli" /\ applyWork[i] = "absent"
                          THEN "original" ELSE applyWork[i]]
    /\ applyPc' = "done"
    /\ applyOutcome' = "ok"
    /\ UNCHANGED <<applyKind, applyFiles, applyIndex, applyWork>>

ApplyInit == ApplyIdle /\ NonApplyIdle

ApplyNext ==
    \/ ApplyStart /\ UNCHANGED nonApplyVars
    \/ ApplyFile /\ UNCHANGED nonApplyVars
    \/ ApplyLoopEnd /\ UNCHANGED nonApplyVars
    \/ ApplyZip /\ UNCHANGED nonApplyVars

SpecApply == ApplyInit /\ [][ApplyNext]_vars

\* the content of file i as it was staged
Staged(i) == IF applyFiles[i].fault = "missing" THEN {"absent", "original"} ELSE {"original"}

\* C19: when some file failed, the rebuild still ends with an archive, in
\* which every failed file is as it was staged and every other file is
\* translated
C19_FileFailureIsLocal ==
    (applyPc = "done" /\ \E i \in 1..Len(applyFiles) : applyFiles[i].fault # "none") =>
        /\ applyOutcome = "ok"
        /\ DOMAIN applyOutput = DOMAIN applyFiles
        /\ \A i \in DOMAIN applyOutput :
              IF applyFiles[i].fault = "none"
              THEN applyOutput[i] = "translated"
              ELSE applyOutput[i] \in Staged(i)


\* ---------------------------------------------------------------------------
\* SpecMf: the titles of imsmanifest.xml, read by _extract_manifest and
\* rewritten by _apply_to_manifest (command line tool)
\* (src/traductor.py 270-301, 666-688)
\*
\* A payload is the raw text between <title> and </title>, token by token:
\* a character, or one of the entities &amp; &lt; &gt;.  A text is a sequence
\* of characters.
\* ---------------------------------------------------------------------------

MaxTitles == 2

\* raw payloads of a well-formed manifest: ab, a>, a&gt;, a&amp;
MfPayloads ==
    { <<"a", "b">>, <<"a", ">">>, <<"a", "&gt;">>, <<"a", "&amp;">> }

\* the texts a translation backend may return: xy, x&
MfTranslatedTexts == { <<"x", "y">>, <<"x", "&">> }

\* the parser's reading of one raw token
UnescapeToken(t) ==
    CASE t = "&amp;" -> "&" [] t = "&lt;" -> "<" [] t = "&gt;" -> ">" [] OTHER -> t

\* elem.text as lxml gives it for a raw payload
PayloadText(payload) == [i \in 1..Len(payload) |-> UnescapeToken(payload[i])]

\* text.replace('&', '&amp;').replace('<', '&lt;').replace('>', '&gt;')
XmlEscape(text) ==
    [i \in 1..Len(text) |->
        CASE text[i] = "&" -> "&amp;" [] text[i] = "<" -> "&lt;"
          [] text[i] = ">" -> "&gt;" [] OTHER -> text[i]]

\* a payload no XML parser rejects: no bare '&' and no bare '<'
WellFormedPayload(payload) == \A i \in 1..Len(payload) : payload[i] \notin {"&", "<"}

\* ContentExtractor._extract_manifest / _process_manifest_element: one
\* segment per title whose stripped text has at least 2 characters
RECURSIVE ManifestSegments(_, _)
ManifestSegments(titles, n) ==
    IF n = 0 THEN <<>>
    ELSE LET text == strip(PayloadText(titles[n]))
         IN IF Len(text) >= 2
            THEN Append(ManifestSegments(titles, n - 1),
                        [id |-> n, text |-> text, title |-> n])
            ELSE ManifestSegments(titles, n - 1)

\* the first title element of content whose raw payload is payload, 0 if none:
\* where content.replace('<title>' + payload + '</title>', ..., 1) acts
FirstTitle(content, payload) ==
    IF \E k \in 1..Len(content) : content[k] = payload
    THEN CHOOSE k \in 1..Len(content) :
            /\ content[k] = payload
            /\ \A j \in 1..(k - 1) : content[j] # payload
    ELSE 0

\* content.replace(f'<title>{old}</title>', f'<title>{new}</title>', 1)
ReplaceTitle(st, seg, old, new) ==
    LET k == FirstTitle(st.content, old)
    IN IF k = 0 THEN st
       ELSE [content |-> [st.content EXCEPT ![k] = new],
             rewrites |-> [st.rewrites EXCEPT ![seg] = @ \cup {k}]]

\* ScormRebuilder._apply_to_manifest: the body of the loop for segments 1..n
RECURSIVE _apply_to_manifest(_, _, _, _)
_apply_to_manifest(content, segments, translations, n) ==
    IF n = 0
    THEN [content |-> content, rewrites |-> [i \in 1..Len(segments) |-> {}]]
    ELSE LET before == _apply_to_manifest(content, segments, translations, n - 1)
             seg == segments[n]
         IN IF seg.id \notin DOMAIN translations THEN before
            ELSE LET orig_escaped == XmlEscape(seg.text)
                     trans_escaped == XmlEscape(translations[seg.id])
                     first == ReplaceTitle(before, n, seg.text, translations[seg.id])
                 IN IF orig_escaped # seg.text
                    THEN ReplaceTitle(first, n, orig_escaped, trans_escaped)
                    ELSE first

\* ScormParser.parse: the manifest of the package
MfParse ==
    /\ mfPc = "none"
    /\ \E titles \in SeqsOf(MfPayloads, 1, MaxTitles) :
          /\ mfTitles' = titles
          /\ mfContent' = titles
          /\ mfSegments' = ManifestSegments(titles, Len(titles))
    /\ mfPc' = "extracted"
    /\ UNCHANGED <<mfTranslations, mfRewrites>>

\* Translator.translate: a text for some of the segments
MfTranslate ==
    /\ mfPc = "extracted"
    /\ \E ids \in SUBSET {mfSegments[i].id : i \in 1..Len(mfSegments)} :
          \E translations \in [ids -> MfTranslatedTexts] :
              mfTranslations' = translations
    /\ mfPc' = "translated"
    /\ UNCHANGED <<mfTitles, mfSegments, mfContent, mfRewrites>>

\* ScormRebuilder._apply_to_manifest on the working copy
MfApply ==
    /\ mfPc = "translated"
    /\ LET res == _apply_to_manifest(mfContent, mfSegments, mfTranslations,
                                     Len(mfSegments))
       IN /\ mfContent' = res.content
          /\ mfRewrites' = res.rewrites
    /\ mfPc' = "applied"
    /\ UNCHANGED <<mfTitles, mfSegments, mfTranslations>>

MfInit == MfIdle /\ NonMfIdle

MfNext ==
    \/ MfParse /\ UNCHANGED nonMfVars
    \/ MfTranslate /\ UNCHANGED nonMfVars
    \/ MfApply /\ UNCHANGED nonMfVars

SpecMf == MfInit /\ [][MfNext]_vars

\* C20: after apply-back every manifest segment that has a translation has
\* rewritten exactly one title element, its own, whose payload is now the
\* XML-escaped translation (so every payload is well-formed), and the titles
\* of segments without a translation are unchanged
C20_OneEscapedTitlePerSegment ==
    mfPc = "applied" =>
        /\ \A i \in 1..Len(mfSegments) :
              LET seg == mfSegments[i]
              IN IF seg.id \in DOMAIN mfTranslations
                 THEN /\ Cardinality(mfRewrites[i]) = 1
                      /\ mfContent[seg.title] = XmlEscape(mfTranslations[seg.id])
                 ELSE mfContent[seg.title] = mfTitles[seg.title]
        /\ \A k \in 1..Len(mfContent) : WellFormedPayload(mfContent[k])


\* ---------------------------------------------------------------------------
\* SpecSplice: the bytes of a Rise page around the payload of
\* deserialize("..."), read and written back by _apply_to_rise
\* (src/traductor.py 702-746)
\*
\* The text before and after the payload is a sequence of tokens: a letter,
\* or one of the line endings LF, CRLF, CR.
\* ---------------------------------------------------------------------------

MaxSpliceLen == 1

SpliceTokens == {"a", "LF", "CRLF", "CR"}

SpliceTexts == SeqsOf(SpliceTokens, 0, MaxSpliceLen)

\* open(path, 'r', encoding='utf-8').read(): with the default newline=None
\* every line ending is handed to the program as '\n'
ReadText(bytes) ==
    [i \in 1..Len(bytes) |-> IF bytes[i] \in {"CRLF", "CR"} THEN "LF" ELSE bytes[i]]

\* open(path, 'w', encoding='utf-8').write(text): with the default
\* newline=None every '\n' is written as os.linesep
WriteText(text, linesep) ==
    [i \in 1..Len(text) |-> IF text[i] = "LF" THEN linesep ELSE text[i]]

\* _apply_to_rise reads the page; re.search captures the payload
SpliceRead ==
    /\ splicePc = "none"
    /\ \E linesep \in {"LF", "CRLF"}, prefix \in SpliceTexts, suffix \in SpliceTexts,
          data \in EncDatas :
          \E payload \in EncPayloads(data) :
             /\ spliceLinesep' = linesep
             /\ spliceFile' = [prefix |-> prefix, payload |-> payload, suffix |-> suffix]
    /\ splicePc' = "read"
    /\ UNCHANGED <<spliceTranslations, spliceWritten>>

\* _decode_rise_content, _apply_to_json, _encode_rise_content:
\* content[:match.start(1)] + new_base64 + content[match.end(1):] is written
SpliceWrite ==
    /\ splicePc = "read"
    /\ \E translated \in SUBSET {RiseSegId(RisePaths[k]) : k \in EncLeaves} :
          LET translations == [id \in translated |-> RiseTranslated(id)]
              data == json_loads(b64decode(spliceFile.payload))
          IN /\ spliceTranslations' = translations
             /\ spliceWritten' =
                  [prefix |-> WriteText(ReadText(spliceFile.prefix), spliceLinesep),
                   payload |-> b64encode(json_dumps(_apply_to_json(data, translations))),
                   suffix |-> WriteText(ReadText(spliceFile.suffix), spliceLinesep)]
    /\ splicePc' = "written"
    /\ UNCHANGED <<spliceLinesep, spliceFile>>

SpliceInit == SpliceIdle /\ NonSpliceIdle

SpliceNext ==
    \/ SpliceRead /\ UNCHANGED nonSpliceVars
    \/ SpliceWrite /\ UNCHANGED nonSpliceVars

SpecSplice == SpliceInit /\ [][SpliceNext]_vars

\* C21: after Rise apply-back the part of the file before the captured
\* payload and the part after it are those of the input file
C21_OnlyPayloadChanges ==
    splicePc = "written" =>
        /\ spliceWritten.prefix = spliceFile.prefix
        /\ spliceWritten.suffix = spliceFile.suffix


\* ---------------------------------------------------------------------------
\* SpecIso: the scratch tree and the working copies while the target
\* languages of one package are rebuilt one after the other
\* (src/traductor.py 565-604, 816-838, 866-897;
\*  src/backend/app/services/scorm_rebuilder.py 84-130)
\* ---------------------------------------------------------------------------

MaxIsoFiles == 2

\* the content of file i in the archive
IsoContent(i) == <<"original", i>>

\* the content a work_<lang> directory left by an earlier, interrupted run
\* holds for file i
StaleContent(i) == <<"stale", i>>

\* the file after the translations of lang were applied to it
IsoTranslated(lang, content) == <<lang>> \o content

\* a working directory that already exists is used as it is
ReuseWorkingDir(work, lang, scratch) ==
    IF lang \in DOMAIN work THEN work
    ELSE [l \in DOMAIN work \cup {lang} |-> IF l = lang THEN scratch ELSE work[l]]

\* CLI _prepare_working_dir: shutil.rmtree(working_dir) when it exists, then
\* shutil.copytree(source_path, working_dir); backend rebuild_scorm:
\* tempfile.mkdtemp() and shutil.copytree(source_dir, temp_dir)
_prepare_working_dir(work, lang, scratch) ==
    [l \in DOMAIN work \cup {lang} |-> IF l = lang THEN scratch ELSE work[l]]

\* _apply_translations_to_files / the loop over files_processed: the files
\* of the extraction are rewritten in the working copy
IsoApplyTo(tree, files, lang) ==
    [i \in DOMAIN tree |->
        IF files[i] THEN IsoTranslated(lang, tree[i]) ELSE tree[i]]

\* parse and extract: the archive is unpacked into the scratch directory;
\* the output directory of the CLI may hold work_<lang> directories of an
\* earlier run
IsoExtract ==
    /\ isoPc = "none"
    /\ \E kind \in {"cli", "backend"}, files \in SeqsOf(BOOLEAN, 1, MaxIsoFiles),
          langs \in LangLists, stale \in SUBSET Languages :
          /\ kind = "backend" => stale = {}
          /\ isoKind' = kind
          /\ isoFiles' = files
          /\ isoOriginal' = [i \in 1..Len(files) |-> IsoContent(i)]
          /\ isoScratch' = [i \in 1..Len(files) |-> IsoContent(i)]
          /\ isoLangs' = langs
          /\ isoWork' = [l \in stale |-> [i \in 1..Len(files) |-> StaleContent(i)]]
          /\ isoStale' = stale
    /\ isoPc' = "extracted"
    /\ UNCHANGED isoOutput

\* rebuild, first step: the working copy of the current language is made
IsoPrepare ==
    /\ isoPc = "extracted"
    /\ isoLangs # <<>>
    /\ isoWork' = _prepare_working_dir(isoWork, isoLangs[1], isoScratch)
    /\ isoPc' = "seeded"
    /\ UNCHANGED <<isoKind, isoFiles, isoOriginal, isoScratch, isoLangs, isoOutput,
                   isoStale>>

\* rebuild, second step: the translations are applied to the working copy
IsoApply ==
    /\ isoPc = "seeded"
    /\ isoWork' = [isoWork EXCEPT ![isoLangs[1]] = IsoApplyTo(@, isoFiles, isoLangs[1])]
    /\ isoPc' = "applied"
    /\ UNCHANGED <<isoKind, isoFiles, isoOriginal, isoScratch, isoLangs, isoOutput,
                   isoStale>>

\* rebuild, last step: _create_zip writes <stem>_<lang>.zip from the working
\* copy, and the working copy is removed
IsoZip ==
    /\ isoPc = "applied"
    /\ LET lang == isoLangs[1]
       IN /\ isoOutput' = [l \in DOMAIN isoOutput \cup {lang} |->
                              IF l = lang THEN isoWork[lang] ELSE isoOutput[l]]
          /\ isoWork' = [l \in DOMAIN isoWork \ {lang} |-> isoWork[l]]
    /\ isoLangs' = Tail(isoLangs)
    /\ isoPc' = IF Len(isoLangs) > 1 THEN "extracted" ELSE "done"
    /\ UNCHANGED <<isoKind, isoFiles, isoOriginal, isoScratch, isoStale>>

IsoInit == IsoIdle /\ NonIsoIdle

IsoNext ==
    \/ IsoExtract /\ UNCHANGED nonIsoVars
    \/ IsoPrepare /\ UNCHANGED nonIsoVars
    \/ IsoApply /\ UNCHANGED nonIsoVars
    \/ IsoZip /\ UNCHANGED nonIsoVars

SpecIso == IsoInit /\ [][IsoNext]_vars

\* the archive of lang when lang is the only language of the run
IsoAlone(lang) == IsoApplyTo(isoOriginal, isoFiles, lang)

\* C22: after extraction the scratch tree is never modified, and the output
\* archive of every language is the one the language gets when it is
\* processed alone, wherever it stands in the list of languages
C22_ScratchReadOnly ==
    /\ isoScratch = isoOriginal
    /\ \A lang \in DOMAIN isoOutput : isoOutput[lang] = IsoAlone(lang)

\* a run of two languages has ended, a work_<lang> directory of an earlier
\* run was in the way of one of them, and some file carried translations
C22_Witness ==
    /\ isoPc = "done"
    /\ Cardinality(DOMAIN isoOutput) >= 2
    /\ isoStale \cap DOMAIN isoOutput # {}
    /\ \E i \in 1..Len(isoFiles) : isoFiles[i]


\* ---------------------------------------------------------------------------
\* SpecMan: which entry of the archive is taken as the manifest
\* (src/traductor.py 124-143 parse, 145-171 _extract_zip, 187-192
\*  _find_manifest; src/backend/app/services/scorm_parser.py 190-236
\*  validate_scorm_zip)
\* ---------------------------------------------------------------------------

MaxManEntries == 2

ManBasenames == {"imsmanifest.xml", "IMSMANIFEST.XML", "old_imsmanifest.xml", "index.html"}
ManDirs == {<<>>, <<"curso">>, <<"__MACOSX">>}

\* entry names: imsmanifest.xml, curso/imsmanifest.xml,
\* __MACOSX/imsmanifest.xml, old_imsmanifest.xml, ...
ManEntryNames == {dir \o <<base>> : dir \in ManDirs, base \in ManBasenames}

Basename(name) == name[Len(name)]
Dirname(name) == SubSeq(name, 1, Len(name) - 1)

\* str.endswith('imsmanifest.xml') on the strings of ManBasenames
EndsWithManifest(str) == str \in {"imsmanifest.xml", "old_imsmanifest.xml"}

\* '__MACOSX' in name
MentionsMacosx(name) == \E i \in 1..Len(name) : name[i] = "__MACOSX"

\* the first index of names that satisfies Test, 0 if none
FirstIndex(names, Test(_)) ==
    IF \E i \in 1..Len(names) : Test(names[i])
    THEN CHOOSE i \in 1..Len(names) :
            Test(names[i]) /\ \A j \in 1..(i - 1) : ~Test(names[j])
    ELSE 0

\* CLI ScormParser._find_manifest: the entry it returns
FindManifestEntry(file_list) ==
    LET Hit(name) == EndsWithManifest(lower(Basename(name))) /\ ~MentionsMacosx(name)
    IN FirstIndex(file_list, Hit)

\* backend validate_scorm_zip: the entry that makes
\* "imsmanifest.xml" in file_list true
RootManifestEntry(file_list) ==
    LET Hit(name) == name = <<"imsmanifest.xml">>
    IN FirstIndex(file_list, Hit)

\* zipfile.ZipFile(zip_path).namelist()
ManList ==
    /\ manPc = "none"
    /\ \E kind \in {"cli", "backend"}, names \in SeqsOf(ManEntryNames, 1, MaxManEntries) :
          /\ manKind' = kind
          /\ manNames' = names
    /\ manPc' = "listed"
    /\ UNCHANGED <<manSelected, manRoot>>

\* CLI _extract_zip / parse: ValueError when _find_manifest gives None,
\* otherwise scorm_root is the parent of the manifest;
\* backend parse_scorm_package: ScormParserError when validation fails,
\* otherwise the package root is the root of the archive
ManFind ==
    /\ manPc = "listed"
    /\ LET k == IF manKind = "cli" THEN FindManifestEntry(manNames)
                ELSE RootManifestEntry(manNames)
       IN /\ manSelected' = k
          /\ manPc' = IF k = 0 THEN "rejected" ELSE "found"
          /\ manRoot' = IF k = 0 THEN <<>> ELSE Dirname(manNames[k])
    /\ UNCHANGED <<manKind, manNames>>

ManInit == ManIdle /\ NonManIdle

ManNext ==
    \/ ManList /\ UNCHANGED nonManVars
    \/ ManFind /\ UNCHANGED nonManVars

SpecMan == ManInit /\ [][ManNext]_vars

\* the entry the claim selects: lowercased basename exactly imsmanifest.xml,
\* path not starting with __MACOSX/
IsManifestEntry(name) ==
    lower(Basename(name)) = "imsmanifest.xml" /\ name[1] # "__MACOSX"

\* C23: discovery takes the first entry whose lowercased basename is exactly
\* imsmanifest.xml and whose path does not start with __MACOSX/, its parent
\* directory is the package root, and an archive without such an entry is
\* rejected
C23_FirstExactManifest ==
    manPc \in {"found", "rejected"} =>
        LET k == FirstIndex(manNames, IsManifestEntry)
        IN /\ manSelected = k
           /\ (k = 0) = (manPc = "rejected")
           /\ k # 0 => manRoot = Dirname(manNames[k])


\* ---------------------------------------------------------------------------
\* SpecTree: the organization tree parsed from the manifest
\* (src/backend/app/services/scorm_parser.py 376-585 _parse_organizations,
\*  _parse_item, _parse_objectives, _parse_sequencing,
\*  _parse_completion_threshold)
\* ---------------------------------------------------------------------------

\* An element is [tag, ns, val, kids]: ns says whether it lies in an XML
\* namespace, val is what the parser reads from the element itself (its
\* identifier or objectiveID attribute, its minProgressMeasure, its controlMode
\* attributes, or its text), kids are its child elements in document order.
\* Every element's val is the path of the organization or item that owns it,
\* so that values read from different owners differ.

MaxOrgItems == 2
MaxItemKids == 1

NoneVal == <<0>>
EmptyText == <<>>

Elem(tag, ns, val, kids) == [tag |-> tag, ns |-> ns, val |-> val, kids |-> kids]

LeafShapes == [title : BOOLEAN, d2004 : BOOLEAN, kids : {<<>>}]
ItemShapes == [title : BOOLEAN, d2004 : BOOLEAN, kids : SeqsOf(LeafShapes, 0, MaxItemKids)]
OrgShapes == [title : BOOLEAN, items : SeqsOf(ItemShapes, 1, MaxOrgItems)]

\* <title>, then the child items, then <completionThreshold> and <sequencing>
\* (the order of the IMS content packaging schema)
RECURSIVE ItemElem(_, _, _)
ItemElem(shape, path, ns) ==
    Elem("item", ns, path,
         (IF shape.title THEN <<Elem("title", ns, path, <<>>)>> ELSE <<>>)
         \o [i \in 1..Len(shape.kids) |-> ItemElem(shape.kids[i], Append(path, i), ns)]
         \o (IF shape.d2004
             THEN << Elem("completionThreshold", ns, path, <<>>),
                     Elem("sequencing", ns, path,
                          << Elem("controlMode", ns, path, <<>>),
                             Elem("objectives", ns, path,
                                  <<Elem("primaryObjective", ns, path, <<>>)>>) >>) >>
             ELSE <<>>))

ManifestElem(shape, ns) ==
    Elem("manifest", ns, <<>>,
         << Elem("organizations", ns, <<>>,
                 << Elem("organization", ns, <<1>>,
                         (IF shape.title THEN <<Elem("title", ns, <<1>>, <<>>)>> ELSE <<>>)
                         \o [i \in 1..Len(shape.items) |->
                                ItemElem(shape.items[i], <<1, i>>, ns)]) >>) >>)

\* every element below elem, in document order
RECURSIVE Descendants(_)
Descendants(elem) ==
    Flatten([i \in 1..Len(elem.kids) |-> <<elem.kids[i]>> \o Descendants(elem.kids[i])])

\* the elements with the tag; plain asks for those outside every namespace
Tagged(elems, tag, plain) ==
    LET Test(e) == e.tag = tag /\ (plain => ~e.ns)
    IN SelectSeq(elems, Test)

FirstOrNone(elems) == IF elems = <<>> THEN Elem("none", FALSE, <<>>, <<>>) ELSE Head(elems)
IsNone(elem) == elem.tag = "none"

\* elem.findall("tag", NAMESPACES): NAMESPACES maps no default namespace, so
\* an unprefixed tag matches the children that lie in no namespace
FindallChild(elem, tag) == Tagged(elem.kids, tag, TRUE)
\* elem.findall(".//tag", NAMESPACES)
FindallPlain(elem, tag) == Tagged(Descendants(elem), tag, TRUE)
\* elem.findall(".//{*}tag")
FindallAny(elem, tag) == Tagged(Descendants(elem), tag, FALSE)

\* elem.find("tag", NAMESPACES), and .find(".//{*}tag") when that is None
FindChildElseAny(elem, tag) ==
    LET found == FindallChild(elem, tag)
    IN IF found # <<>> THEN Head(found) ELSE FirstOrNone(FindallAny(elem, tag))

\* elem.find(".//tag", NAMESPACES), and .find(".//{*}tag") when that is None
FindPlainElseAny(elem, tag) ==
    LET found == FindallPlain(elem, tag)
    IN IF found # <<>> THEN Head(found) ELSE FirstOrNone(FindallAny(elem, tag))

\* findall(".//tag", NAMESPACES), and findall(".//{*}tag") when that is empty
FindallPlainElseAny(elem, tag) ==
    LET found == FindallPlain(elem, tag)
    IN IF found # <<>> THEN found ELSE FindallAny(elem, tag)

\* findall("item", NAMESPACES), and when that is empty findall(".//{*}item")
\* filtered by getparent() == elem
DirectItems(elem) ==
    LET found == FindallChild(elem, "item")
        IsChild(e) == \E i \in 1..Len(elem.kids) : elem.kids[i] = e
    IN IF found # <<>> THEN found ELSE SelectSeq(FindallAny(elem, "item"), IsChild)

TitleText(elem) ==
    LET title_elem == FindChildElseAny(elem, "title")
    IN IF IsNone(title_elem) THEN EmptyText ELSE title_elem.val

_parse_sequencing(item_elem) ==
    LET seq_elem == FindPlainElseAny(item_elem, "sequencing")
        control_elem == FindPlainElseAny(seq_elem, "controlMode")
    IN IF IsNone(seq_elem) THEN NoneVal
       ELSE IF IsNone(control_elem) THEN EmptyText
       ELSE control_elem.val

_parse_objectives(item_elem) ==
    LET seq_elem == FindPlainElseAny(item_elem, "sequencing")
        container == FindPlainElseAny(seq_elem, "objectives")
        obj_elements == FindallPlainElseAny(container, "primaryObjective")
                        \o FindallPlainElseAny(container, "objective")
    IN IF IsNone(seq_elem) \/ IsNone(container) THEN <<>>
       ELSE [i \in 1..Len(obj_elements) |-> obj_elements[i].val]

_parse_completion_threshold(item_elem) ==
    LET threshold_elem == FindPlainElseAny(item_elem, "completionThreshold")
    IN IF IsNone(threshold_elem) THEN NoneVal ELSE threshold_elem.val

RECURSIVE _parse_item(_)
_parse_item(item_elem) ==
    LET child_elements == DirectItems(item_elem)
    IN
    [identifier |-> item_elem.val,
     title |-> TitleText(item_elem),
     children |-> [i \in 1..Len(child_elements) |-> _parse_item(child_elements[i])],
     objectives |-> _parse_objectives(item_elem),
     sequencing |-> _parse_sequencing(item_elem),
     completion_threshold |-> _parse_completion_threshold(item_elem)]

_parse_organizations(root) ==
    LET orgs_element == FindChildElseAny(root, "organizations")
        found == FindallChild(orgs_element, "organization")
        org_elements == IF found # <<>> THEN found
                        ELSE FindallAny(orgs_element, "organization")
        Items(org) == LET item_elements == DirectItems(org)
                      IN [i \in 1..Len(item_elements) |-> _parse_item(item_elements[i])]
    IN IF IsNone(orgs_element) THEN <<>>
       ELSE [k \in 1..Len(org_elements) |->
                [identifier |-> org_elements[k].val,
                 title |-> TitleText(org_elements[k]),
                 items |-> Items(org_elements[k])]]

\* etree.fromstring(manifest)
TreeLoad ==
    /\ treePc = "none"
    /\ \E shape \in OrgShapes, ns \in BOOLEAN : treeRoot' = ManifestElem(shape, ns)
    /\ treePc' = "loaded"
    /\ UNCHANGED treeOrgs

TreeParse ==
    /\ treePc = "loaded"
    /\ treeOrgs' = _parse_organizations(treeRoot)
    /\ treePc' = "parsed"
    /\ UNCHANGED treeRoot

TreeInit == TreeIdle /\ NonTreeIdle

TreeNext ==
    \/ TreeLoad /\ UNCHANGED nonTreeVars
    \/ TreeParse /\ UNCHANGED nonTreeVars

SpecTree == TreeInit /\ [][TreeNext]_vars

\* the parsed items of a list of parsed items, parents before children
RECURSIVE ParsedItems(_)
ParsedItems(items) ==
    Flatten([i \in 1..Len(items) |-> <<items[i]>> \o ParsedItems(items[i].children)])

ChildrenTagged(elem, tag) == Tagged(elem.kids, tag, FALSE)
Vals(elems) == [i \in 1..Len(elems) |-> elems[i].val]
ItemIdentifiers(items) == [i \in 1..Len(items) |-> items[i].identifier]

OwnTitle(elem) ==
    IF ChildrenTagged(elem, "title") = <<>> THEN EmptyText
    ELSE Head(ChildrenTagged(elem, "title")).val

\* every organization's items and every item's children are its direct <item>
\* children in document order, and every <item> appears once
C24_Structure ==
    treePc = "parsed" =>
        LET TreeOrgElems == FindallAny(treeRoot, "organization")
            TreeItemElems == FindallAny(treeRoot, "item")
            TreeParsedItems == Flatten([k \in 1..Len(treeOrgs) |-> ParsedItems(treeOrgs[k].items)])
        IN
        /\ Len(treeOrgs) = Len(TreeOrgElems)
        /\ \A k \in 1..Len(treeOrgs) :
              ItemIdentifiers(treeOrgs[k].items) = Vals(ChildrenTagged(TreeOrgElems[k], "item"))
        /\ ItemIdentifiers(TreeParsedItems) = Vals(TreeItemElems)
        /\ \A i \in 1..Len(TreeParsedItems) :
              ItemIdentifiers(TreeParsedItems[i].children)
                 = Vals(ChildrenTagged(TreeItemElems[i], "item"))

C24_Titles ==
    treePc = "parsed" =>
        LET TreeOrgElems == FindallAny(treeRoot, "organization")
            TreeItemElems == FindallAny(treeRoot, "item")
            TreeParsedItems == Flatten([k \in 1..Len(treeOrgs) |-> ParsedItems(treeOrgs[k].items)])
        IN
        /\ \A k \in 1..Len(treeOrgs) : treeOrgs[k].title = OwnTitle(TreeOrgElems[k])
        /\ \A i \in 1..Len(TreeParsedItems) :
              i <= Len(TreeItemElems)
                 => TreeParsedItems[i].title = OwnTitle(TreeItemElems[i])

\* C24: the parsed tree holds each organization's and each item's direct <item>
\* children in document order, every <item> once at its own depth, and each
\* title is the text of the element's own direct <title> child
C24_TreeMirrorsManifest == C24_Structure /\ C24_Titles


\* what the item's own direct children declare
OwnSequencing(elem) ==
    IF ChildrenTagged(elem, "sequencing") = <<>> THEN NoneVal
    ELSE Head(ChildrenTagged(elem, "sequencing")).val

OwnThreshold(elem) ==
    IF ChildrenTagged(elem, "completionThreshold") = <<>> THEN NoneVal
    ELSE Head(ChildrenTagged(elem, "completionThreshold")).val

\* C30: an item without a sequencing element of its own is parsed with
\* sequencing None, no objectives and no completion threshold, whatever its
\* descendant items declare, and an item with one gets its own data
C30_OwnSequencingOnly ==
    treePc = "parsed" =>
        LET TreeItemElems == FindallAny(treeRoot, "item")
            TreeParsedItems == Flatten([k \in 1..Len(treeOrgs) |-> ParsedItems(treeOrgs[k].items)])
        IN \A i \in 1..Len(TreeParsedItems) :
              i <= Len(TreeItemElems) =>
                 /\ TreeParsedItems[i].sequencing = OwnSequencing(TreeItemElems[i])
                 /\ TreeParsedItems[i].completion_threshold = OwnThreshold(TreeItemElems[i])
                 /\ TreeParsedItems[i].objectives =
                       IF OwnSequencing(TreeItemElems[i]) = NoneVal THEN <<>>
                       ELSE <<OwnSequencing(TreeItemElems[i])>>


\* ---------------------------------------------------------------------------
\* SpecNest: the text extracted from an element that holds another element
\* (src/traductor.py 403-431 _extract_html, _extract_element_and_attrs;
\*  src/backend/app/services/content_extractor.py 260-323
\*  extract_from_html_file, _get_direct_text)
\* ---------------------------------------------------------------------------

MaxNestLen == 3

NestTexts == SeqsOf({"a", " "}, 0, MaxNestLen)

\* the text nodes that are children of the element, in document order
NestChildren(doc, tag) ==
    IF tag = "div" THEN SelectSeq(<<doc.before, doc.after>>, LAMBDA t : t # <<>>)
    ELSE SelectSeq(<<doc.child>>, LAMBDA t : t # <<>>)

\* every text node below the element, in document order
NestStrings(doc, tag) ==
    IF tag = "div"
    THEN SelectSeq(<<doc.before, doc.child, doc.after>>, LAMBDA t : t # <<>>)
    ELSE SelectSeq(<<doc.child>>, LAMBDA t : t # <<>>)

\* sep.join(parts)
RECURSIVE Join(_, _)
Join(parts, sep) ==
    IF parts = <<>> THEN <<>>
    ELSE IF Len(parts) = 1 THEN Head(parts)
    ELSE Head(parts) \o sep \o Join(Tail(parts), sep)

\* the strings stripped, the empty ones dropped
StrippedParts(strings) ==
    SelectSeq([i \in 1..Len(strings) |-> strip(strings[i])], LAMBDA t : t # <<>>)

\* Tag.get_text(strip=True)
get_text(doc, tag) == Join(StrippedParts(NestStrings(doc, tag)), <<>>)

\* backend ContentExtractor._get_direct_text
_get_direct_text(doc, tag) == Join(StrippedParts(NestChildren(doc, tag)), <<" ">>)

\* CLI _extract_element_and_attrs: the text segment of one element
CliElementText(doc, tag) ==
    LET text == get_text(doc, tag)
    IN IF text # <<>> /\ Len(text) >= MinHtmlText
       THEN <<[tag |-> tag, text |-> text]>> ELSE <<>>

\* backend extract_from_html_file: the text segment of one element
BackendElementText(doc, tag) ==
    LET text == _get_direct_text(doc, tag)
    IN IF text # <<>> /\ Len(strip(text)) >= MinHtmlText
       THEN <<[tag |-> tag, text |-> strip(text)]>> ELSE <<>>

\* BeautifulSoup(html, 'html.parser')
NestParse ==
    /\ nestPc = "none"
    /\ \E kind \in {"cli", "backend"}, before \in NestTexts, child \in NestTexts,
          after \in NestTexts :
          /\ nestKind' = kind
          /\ nestDoc' = [before |-> before, child |-> child, after |-> after]
    /\ nestPc' = "parsed"
    /\ UNCHANGED nestSegments

\* CLI: one pass over soup.find_all(TEXT_TAGS), in document order
NestExtractCli ==
    /\ nestPc = "parsed" /\ nestKind = "cli"
    /\ nestSegments' = CliElementText(nestDoc, "div") \o CliElementText(nestDoc, "span")
    /\ nestPc' = "extracted"
    /\ UNCHANGED <<nestKind, nestDoc>>

\* backend: one pass per tag of the set TRANSLATABLE_TAGS, whose iteration
\* order is not fixed
NestExtractBackend ==
    /\ nestPc = "parsed" /\ nestKind = "backend"
    /\ \E order \in {<<"div", "span">>, <<"span", "div">>} :
          nestSegments' = BackendElementText(nestDoc, order[1])
                          \o BackendElementText(nestDoc, order[2])
    /\ nestPc' = "extracted"
    /\ UNCHANGED <<nestKind, nestDoc>>

NestInit == NestIdle /\ NonNestIdle

NestNext ==
    \/ NestParse /\ UNCHANGED nonNestVars
    \/ NestExtractCli /\ UNCHANGED nonNestVars
    \/ NestExtractBackend /\ UNCHANGED nonNestVars

SpecNest == NestInit /\ [][NestNext]_vars

\* the characters of a text that are not blanks
NonBlank(text) == SelectSeq(text, LAMBDA c : c # " ")

\* the element's direct text: its text children, blanks between and around
\* them collapsed
DirectText(doc, tag) == Join(StrippedParts(NestChildren(doc, tag)), <<" ">>)

NestSegmentsOf(tag) == SelectSeq(nestSegments, LAMBDA s : s.tag = tag)

\* C25: an element yields one text segment, holding its direct text and none
\* of its descendants' text, if and only if its trimmed direct text has at
\* least 3 characters; parent and child yield their own text separately
C25_DirectTextOnly ==
    nestPc = "extracted" =>
        \A tag \in {"div", "span"} :
            /\ Len(NestSegmentsOf(tag)) = IF Len(DirectText(nestDoc, tag)) >= 3 THEN 1 ELSE 0
            /\ \A i \in 1..Len(NestSegmentsOf(tag)) :
                  /\ NestSegmentsOf(tag)[i].text = DirectText(nestDoc, tag)
                  /\ NonBlank(NestSegmentsOf(tag)[i].text)
                        = NonBlank(Join(NestChildren(nestDoc, tag), <<>>))


\* ---------------------------------------------------------------------------
\* SpecCls: how an HTML file is classified at extraction and at rebuild
\* (src/traductor.py 241-263 extract, 303-311 _is_rise_course,
\*  313-334 _extract_rise, 589-604 _apply_translations_to_files,
\*  656-664 _is_rise_file, 702-723 _apply_to_rise)
\* ---------------------------------------------------------------------------

MaxClsFiles == 2
MaxClsParts == 3

\* the part of a file the classifiers read, f.read(5000), in parts
ReadWindow == 2

\* a file is a sequence of parts: the call __fetchCourse, a call
\* deserialize("<payload>") with a payload that holds one translatable text,
\* or an element <p>text</p>
ClsParts == {"__fetchCourse", "deserialize(", "p"}
ClsDocs == SeqsOf(ClsParts, 1, MaxClsParts)

\* f.read(5000)
Read5000(doc) == SubSeq(doc, 1, IF Len(doc) < ReadWindow THEN Len(doc) ELSE ReadWindow)

\* ContentExtractor._is_rise_course
_is_rise_course(doc) ==
    /\ "__fetchCourse" \in Range(Read5000(doc))
    /\ "deserialize(" \in Range(Read5000(doc))

\* ScormRebuilder._is_rise_file
_is_rise_file(doc) == "deserialize(" \in Range(Read5000(doc))

\* ContentExtractor._extract_rise: the texts of the first payload of the file
ClsExtractRise(doc) ==
    IF "deserialize(" \in Range(doc) THEN <<"rise">> ELSE <<>>

\* ContentExtractor._extract_html: one segment per text element
ClsExtractHtml(doc) ==
    LET IsP(part) == part = "p"
    IN [i \in 1..Len(SelectSeq(doc, IsP)) |-> "html"]

\* how many of the segments _apply_to_rise writes back: those of the payload
ClsApplyRise(doc, segments) ==
    IF "deserialize(" \in Range(doc)
    THEN Cardinality({i \in 1..Len(segments) : segments[i] = "rise"})
    ELSE 0

\* how many of the segments _apply_to_html writes back: those whose text
\* occurs in the file
ClsApplyHtml(doc, segments) ==
    Cardinality({i \in 1..Len(segments) : segments[i] = "html"})

ClsParse ==
    /\ clsPc = "none"
    /\ \E files \in SeqsOf(ClsDocs, 1, MaxClsFiles) :
          /\ clsFiles' = files
          /\ clsExtractedAs' = [i \in 1..Len(files) |-> "none"]
          /\ clsSegments' = [i \in 1..Len(files) |-> <<>>]
          /\ clsRebuiltAs' = [i \in 1..Len(files) |-> "none"]
          /\ clsApplied' = [i \in 1..Len(files) |-> 0]
    /\ clsNext' = 1
    /\ clsPc' = "extract"

\* one turn of the loop of ContentExtractor.extract
ClsExtractFile ==
    /\ clsPc = "extract"
    /\ LET doc == clsFiles[clsNext]
           rise == _is_rise_course(doc)
       IN /\ clsExtractedAs' = [clsExtractedAs EXCEPT ![clsNext] =
                                   IF rise THEN "rise" ELSE "html"]
          /\ clsSegments' = [clsSegments EXCEPT ![clsNext] =
                                IF rise THEN ClsExtractRise(doc) ELSE ClsExtractHtml(doc)]
    /\ IF clsNext = Len(clsFiles)
       THEN clsNext' = 1 /\ clsPc' = "rebuild"
       ELSE clsNext' = clsNext + 1 /\ clsPc' = "extract"
    /\ UNCHANGED <<clsFiles, clsRebuiltAs, clsApplied>>

\* one turn of the loop of ScormRebuilder._apply_translations_to_files, over
\* the files that have an entry in extraction.files (those with segments)
ClsRebuildFile ==
    /\ clsPc = "rebuild"
    /\ LET doc == clsFiles[clsNext]
           segments == clsSegments[clsNext]
       IN IF segments = <<>>
          THEN /\ clsRebuiltAs' = [clsRebuiltAs EXCEPT ![clsNext] = "skipped"]
               /\ UNCHANGED clsApplied
          ELSE IF _is_rise_file(doc)
          THEN /\ clsRebuiltAs' = [clsRebuiltAs EXCEPT ![clsNext] = "rise"]
               /\ clsApplied' = [clsApplied EXCEPT ![clsNext] = ClsApplyRise(doc, segments)]
          ELSE /\ clsRebuiltAs' = [clsRebuiltAs EXCEPT ![clsNext] = "html"]
               /\ clsApplied' = [clsApplied EXCEPT ![clsNext] = ClsApplyHtml(doc, segments)]
    /\ IF clsNext = Len(clsFiles)
       THEN clsNext' = 0 /\ clsPc' = "done"
       ELSE clsNext' = clsNext + 1 /\ clsPc' = "rebuild"
    /\ UNCHANGED <<clsFiles, clsExtractedAs, clsSegments>>

ClsInit == ClsIdle /\ NonClsIdle

ClsNext ==
    \/ ClsParse /\ UNCHANGED nonClsVars
    \/ ClsExtractFile /\ UNCHANGED nonClsVars
    \/ ClsRebuildFile /\ UNCHANGED nonClsVars

SpecCls == ClsInit /\ [][ClsNext]_vars

\* C26: a file is rebuilt by the apply of the extractor that produced its
\* segments, so none of its segments is dropped by a disagreement of
\* _is_rise_course and _is_rise_file
C26_SameClassification ==
    \A i \in 1..Len(clsFiles) :
        clsRebuiltAs[i] \in {"rise", "html"} =>
            /\ clsRebuiltAs[i] = clsExtractedAs[i]
            /\ clsApplied[i] = Len(clsSegments[i])


\* ---------------------------------------------------------------------------
\* SpecArc: which entries of the output archive take their content from the
\* working copy
\* (src/traductor.py 124-185 parse, _extract_zip, _fix_corrupted_unicode;
\*  565-643 rebuild, _create_zip, _build_modified_files_map)
\* ---------------------------------------------------------------------------

MaxArcFiles == 2

ArcRoots == {<<>>, <<"curso">>}
ArcBases == {NameIndex, NameAccentNFC, NameAccentNFD, NameAccentCp437}

\* the functions on names work on the component that holds the accent
FixPath(name) == [i \in 1..Len(name) |-> _fix_corrupted_unicode(name[i])]
NFCPath(name) == [i \in 1..Len(name) |-> NFC(name[i])]

\* the manifest and up to MaxArcFiles pages, all below the package root
ArcArchives ==
    UNION {{<<root \o <<NameManifest>>>> \o [i \in 1..Len(bases) |-> root \o <<bases[i]>>] :
               bases \in {b \in SeqsOf(ArcBases, 1, MaxArcFiles) :
                             \A i, j \in 1..Len(b) : b[i] = b[j] => i = j}} :
           root \in ArcRoots}

\* ScormParser.parse / _extract_zip: every member is written at its repaired
\* name, the package root is the directory of the manifest
ArcExtract ==
    /\ arcPc = "none"
    /\ \E es \in ArcArchives :
          LET manifest_path == FixPath(es[FindManifestEntry(es)])
              root_dir == Dirname(manifest_path)
              scratch == {FixPath(es[i]) : i \in 1..Len(es)}
          IN /\ arcArchive' = es
             /\ arcRoot' = root_dir
             \* shutil.copytree(package.extracted_path, working_dir)
             /\ arcWorking' = {SubSeq(q, Len(root_dir) + 1, Len(q)) :
                                 q \in {r \in scratch : StartsWith(r, root_dir)}}
    /\ arcPc' = "extracted"
    /\ UNCHANGED <<arcApplied, arcOutput>>

\* ScormRebuilder._apply_translations_to_files: the files that have segments
ArcApply ==
    /\ arcPc = "extracted"
    /\ \E applied \in SUBSET arcWorking :
          /\ applied # {}
          /\ arcApplied' = applied
    /\ arcPc' = "applied"
    /\ UNCHANGED <<arcArchive, arcRoot, arcWorking, arcOutput>>

\* ScormRebuilder._build_modified_files_map: the arcnames of the working copy
ModifiedArcnames(root_dir, working) == {NFCPath(root_dir \o rel) : rel \in working}

\* ScormRebuilder._create_zip
ArcZip ==
    /\ arcPc = "applied"
    /\ arcOutput' = [i \in 1..Len(arcArchive) |->
                        IF NFCPath(arcArchive[i]) \in ModifiedArcnames(arcRoot, arcWorking)
                        THEN "translated" ELSE "original"]
    /\ arcPc' = "zipped"
    /\ UNCHANGED <<arcArchive, arcRoot, arcWorking, arcApplied>>

ArcInit == ArcIdle /\ NonArcIdle

ArcNext ==
    \/ ArcExtract /\ UNCHANGED nonArcVars
    \/ ArcApply /\ UNCHANGED nonArcVars
    \/ ArcZip /\ UNCHANGED nonArcVars

SpecArc == ArcInit /\ [][ArcNext]_vars

\* C27: every file of the working copy to which a translation was applied is
\* in the output archive with its translated content, whether its entry name
\* was repaired at extraction or lies below a package root
C27_TranslatedFilesArchived ==
    arcPc = "zipped" =>
        \A rel \in arcApplied :
            \E i \in 1..Len(arcArchive) :
                /\ FixPath(arcArchive[i]) = arcRoot \o rel
                /\ arcOutput[i] = "translated"


\* ---------------------------------------------------------------------------
\* SpecBatch: batch mode, pendientes/ -> traducidos/ + procesados/
\* (src/traductor.py 816-838 _run_translation, 927-958 _move_to_processed,
\*  _run_batch)
\* ---------------------------------------------------------------------------

MaxBatchFiles == 2
MaxBatchLangs == 2

\* what happens to one archive: parse raises or not, extraction finds
\* segments or not, and the language (0: none) whose translation or rebuild
\* raises
BatchFates == [parse_raises : BOOLEAN, has_segments : BOOLEAN, raises_at : 0..MaxBatchLangs]

\* _run_batch up to the loop: _find_pending_files
BatchStart ==
    /\ batchPc = "none"
    /\ \E files \in SeqsOf(BatchFates, 1, MaxBatchFiles), langs \in 1..MaxBatchLangs :
          /\ batchFiles' = files
          /\ batchLangs' = langs
          /\ batchPending' = 1..Len(files)
    /\ batchFile' = 1
    /\ batchLang' = 0
    /\ batchPc' = "file"
    /\ UNCHANGED <<batchProcessed, batchTranslated>>

\* except Exception / finally of the loop body: on to the next archive
BatchNextFile ==
    /\ batchLang' = 0
    /\ IF batchFile = Len(batchFiles)
       THEN batchFile' = batchFile /\ batchPc' = "done"
       ELSE batchFile' = batchFile + 1 /\ batchPc' = "file"

\* _run_translation up to the language loop: _parse_and_extract, and the
\* return when extraction.segments is empty
BatchParse ==
    /\ batchPc = "file"
    /\ IF batchFiles[batchFile].parse_raises
       THEN BatchNextFile
       ELSE IF ~batchFiles[batchFile].has_segments
       THEN batchPc' = "move" /\ UNCHANGED <<batchFile, batchLang>>
       ELSE batchPc' = "language" /\ batchLang' = 1 /\ UNCHANGED batchFile
    /\ UNCHANGED <<batchFiles, batchLangs, batchPending, batchProcessed, batchTranslated>>

\* _process_single_language: translate and rebuild for one language
BatchLanguage ==
    /\ batchPc = "language"
    /\ IF batchFiles[batchFile].raises_at = batchLang
       THEN BatchNextFile /\ UNCHANGED batchTranslated
       ELSE /\ batchTranslated' = batchTranslated \cup {<<batchFile, batchLang>>}
            /\ IF batchLang = batchLangs
               THEN batchPc' = "move" /\ UNCHANGED <<batchFile, batchLang>>
               ELSE batchPc' = "language" /\ batchLang' = batchLang + 1
                    /\ UNCHANGED batchFile
    /\ UNCHANGED <<batchFiles, batchLangs, batchPending, batchProcessed>>

\* _move_to_processed, reached when _run_translation returned
BatchMove ==
    /\ batchPc = "move"
    /\ batchPending' = batchPending \ {batchFile}
    /\ batchProcessed' = batchProcessed \cup {batchFile}
    /\ BatchNextFile
    /\ UNCHANGED <<batchFiles, batchLangs, batchTranslated>>

BatchInit == BatchIdle /\ NonBatchIdle

BatchNext ==
    \/ BatchStart /\ UNCHANGED nonBatchVars
    \/ BatchParse /\ UNCHANGED nonBatchVars
    \/ BatchLanguage /\ UNCHANGED nonBatchVars
    \/ BatchMove /\ UNCHANGED nonBatchVars

SpecBatch == BatchInit /\ [][BatchNext]_vars

\* C28: an archive is in procesados/ only when traducidos/ holds its output
\* for every requested language; otherwise it is still in pendientes/; and
\* the batch gets to every archive
C28_MovedOnlyWhenTranslated ==
    /\ \A f \in batchProcessed :
          \A lang \in 1..batchLangs : <<f, lang>> \in batchTranslated
    /\ batchPending \cap batchProcessed = {}
    /\ batchPending \cup batchProcessed = 1..Len(batchFiles)
    /\ batchPc = "done" => batchFile = Len(batchFiles)


\* ---------------------------------------------------------------------------
\* normalize_files_in_directory on the working copy of the backend rebuild
\* (src/backend/app/services/filename_normalizer.py 118-186;
\*  src/backend/app/services/scorm_rebuilder.py 93-99)
\* ---------------------------------------------------------------------------

\* the files of the archive, which extraction puts into the directory
PackFilesOf(es) == {i \in 1..Len(es) : ~IsDirName(es[i].name)}

\* C29: normalization loses no file, also when two names normalize to one
\* path, and every renamed original path is mapped to the path that now
\* holds that file's content
C29_NormalizeKeepsFiles ==
    (packPc = "done" /\ packPath = "backend") =>
        /\ Len(packOutput) = Cardinality(PackFilesOf(packArchive))
        /\ \A i \in PackFilesOf(packArchive) :
              normalize_path(packArchive[i].name) # packArchive[i].name =>
                  \E j \in 1..Len(packOutput) :
                      /\ packOutput[j].name = normalize_path(packArchive[i].name)
                      /\ packOutput[j].data.text = packArchive[i].data.text

====
